---- MODULE Spec2Model ----
(***************************************************************************)
(* Model of the makemkvcon wrapper: the robot-mode parser                  *)
(* (src/lib/parser.ts), the command builder (src/lib/command.ts), execute  *)
(* and the high-level API.                                                 *)
(*                                                                         *)
(* A JavaScript string is modelled as a sequence of one-character strings, *)
(* so that the tokenizer, trim, indexOf, substring, split and parseInt are *)
(* computed character by character as the code computes them.              *)
(*                                                                         *)
(* The specifications share the variables:                                 *)
(*   SpecValues  parseRobotValues applied to every string over Alphabet    *)
(*               of length <= MaxLen;                                      *)
(*   SpecLine    parseRobotLine applied to lines built from a tag, a       *)
(*               field list and padding, and to odd lines;                 *)
(*   SpecDisc    parseRobotOutput followed by parseDiscInfo on texts of    *)
(*               up to MaxLines lines;                                     *)
(*   SpecRecords parseDiscInfo, parseDiscInfoAdvanced and the accessors on *)
(*               record sequences of up to MaxRecords records;             *)
(*   SpecTwice   parseDiscInfo called twice on the same record sequence,   *)
(*               with the objects it creates kept in a heap;               *)
(*   SpecCommand a command builder, execute and the return of              *)
(*               getStructuredDiscInfo or getAvailableDrives, for an       *)
(*               options object chosen by the caller;                      *)
(*   SpecInterleaved two parseDiscInfo invocations, their loop iterations  *)
(*               interleaved.                                              *)
(***************************************************************************)
EXTENDS Integers, Sequences, FiniteSets, TLC

VARIABLES
    pc,           \* position of the caller: "ready", "done", "parsed", "aggregated", ...
    fields,       \* field sequence the caller joins with commas (round trip)
    tag,          \* record-type tag the caller's line is built from
    input,        \* argument of parseRobotValues
    values,       \* result of parseRobotValues
    line,         \* argument of parseRobotLine
    record,       \* result of parseRobotLine
    lines,        \* lines the caller's robot-mode text is made of
    output,       \* argument of parseRobotOutput (robot-mode text)
    robotOutput,  \* result of parseRobotOutput, argument of parseDiscInfo
    discInfo,     \* result of parseDiscInfo
    discInfoAdvanced, \* result of parseDiscInfoAdvanced
    result,       \* result of an accessor (getTitleCount, getMessages, getDrives)
    heap,         \* objects created so far, by address (SpecTwice)
    firstInfo,    \* reference returned by the first parseDiscInfo call
    secondInfo,   \* reference returned by the second parseDiscInfo call
    options,      \* options object the caller passes to the high-level API
    spec,         \* CommandSpec a command builder returned
    args,         \* arguments execute hands to Deno.Command
    stdout,       \* text the makemkvcon process wrote to its standard output
    execResult,   \* MakeMkvResult that execute returned
    structured,   \* discInfo or drives of getStructuredDiscInfo, getAvailableDrives
    invocations   \* the two interleaved aggregations (SpecInterleaved)

vars == <<pc, fields, tag, input, values, line, record, lines, output, robotOutput,
          discInfo, discInfoAdvanced, result, heap, firstInfo, secondInfo,
          options, spec, args, stdout, execResult, structured, invocations>>

(***************************************************************************)
(* Bounds of the model.                                                    *)
(***************************************************************************)
MaxLen == 5        \* longest payload given to parseRobotValues in SpecValues
MaxFieldCount == 3 \* longest field sequence joined in the round trip
MaxFieldLen == 2   \* longest field of such a sequence
MaxFields == 6     \* most fields of a line given to parseRobotLine in SpecLine
MaxLines == 3      \* most lines of a text given to parseRobotOutput in SpecDisc
MaxRecords == 3    \* most records of a sequence given to parseDiscInfo in SpecRecords
MaxInterleaved == 2 \* most records of each of the two sequences of SpecInterleaved

(***************************************************************************)
(* Characters.                                                             *)
(***************************************************************************)
BACKSLASH == "\\"
QUOTE == "\""
COMMA == ","
COLON == ":"
NEWLINE == "\n"

\* The values a variable holds before the call that sets it: no string, no
\* list of strings (each compares unequal to every value of its type).
Unset == <<"unset">>
UnsetList == <<Unset>>

\* What discInfo holds before parseDiscInfo has returned.
NoDiscInfo == [attributes |-> Unset, titles |-> Unset]

\* What firstInfo and secondInfo hold before the call has returned.
NoRef == [attributes |-> 0, titles |-> 0]

\* The variables of the high-level API and of the interleaved aggregations.
apiVars == <<options, spec, args, stdout, execResult, structured, invocations>>

\* The variables that SpecValues, SpecLine and SpecDisc leave alone.
others == <<discInfoAdvanced, result, heap, firstInfo, secondInfo, apiVars>>

OthersUnset ==
    /\ discInfoAdvanced = NoDiscInfo
    /\ result = Unset
    /\ heap = <<>>
    /\ firstInfo = NoRef
    /\ secondInfo = NoRef
    /\ options = <<>>
    /\ spec = <<>>
    /\ args = <<>>
    /\ stdout = Unset
    /\ execResult = <<>>
    /\ structured = <<>>
    /\ invocations = <<>>

(***************************************************************************)
(* parseRobotValues (src/lib/parser.ts 19-58)                              *)
(***************************************************************************)

\* lines 20-23: values = [], current = "", inQuotes = false, escaped = false
ScanInit == [values |-> <<>>, current |-> <<>>, inQuotes |-> FALSE, escaped |-> FALSE]

\* Mutant: the escape is looked at after the quote and the comma, so an
\* escaped quote toggles quoting and an escaped comma splits the field.
ScanCharEscapeLast(st, char) ==
    IF char = BACKSLASH /\ ~st.escaped THEN [st EXCEPT !.escaped = TRUE]
    ELSE IF char = QUOTE THEN [st EXCEPT !.inQuotes = ~@, !.escaped = FALSE]
    ELSE IF char = COMMA /\ ~st.inQuotes
        THEN [st EXCEPT !.values = Append(@, st.current), !.current = <<>>,
                        !.escaped = FALSE]
    ELSE [st EXCEPT !.current = Append(@, char), !.escaped = FALSE]

\* Mutant: a comma ends the field inside quotes too.
ScanCharCommaAlwaysSplits(st, char) ==
    IF st.escaped THEN [st EXCEPT !.current = Append(@, char), !.escaped = FALSE]
    ELSE IF char = BACKSLASH THEN [st EXCEPT !.escaped = TRUE]
    ELSE IF char = QUOTE THEN [st EXCEPT !.inQuotes = ~@]
    ELSE IF char = COMMA
        THEN [st EXCEPT !.values = Append(@, st.current), !.current = <<>>]
    ELSE [st EXCEPT !.current = Append(@, char)]

\* lines 26-50: the body of the loop, for one character
ScanChar(st, char) ==
    IF st.escaped THEN [st EXCEPT !.current = Append(@, char), !.escaped = FALSE]
    ELSE IF char = BACKSLASH THEN [st EXCEPT !.escaped = TRUE]
    ELSE IF char = QUOTE THEN [st EXCEPT !.inQuotes = ~@]
    ELSE IF char = COMMA /\ ~st.inQuotes
        THEN [st EXCEPT !.values = Append(@, st.current), !.current = <<>>]
    ELSE [st EXCEPT !.current = Append(@, char)]

\* line 25: for (let i = 0; i < input.length; i++), from position i in state st
RECURSIVE Scan(_, _, _)
Scan(str, i, st) ==
    IF i > Len(str) THEN st ELSE Scan(str, i + 1, ScanChar(st, str[i]))

\* Mutant: the final buffer is always pushed.
FinishAlways(st) == Append(st.values, st.current)

\* Mutant: the final buffer is pushed only when it is not empty.
FinishNonEmpty(st) ==
    IF st.current # <<>> THEN Append(st.values, st.current) ELSE st.values

\* Mutant: a payload that ends inside a quote or on a backslash loses its
\* last field.
FinishDropOpen(st) ==
    IF st.inQuotes \/ st.escaped THEN st.values
    ELSE IF st.current # <<>> \/ Len(st.values) > 0
        THEN Append(st.values, st.current)
        ELSE st.values

\* lines 53-57: if (current || values.length > 0) values.push(current)
Finish(st) ==
    IF st.current # <<>> \/ Len(st.values) > 0
        THEN Append(st.values, st.current)
        ELSE st.values

parseRobotValues(str) == Finish(Scan(str, 1, ScanInit))

(***************************************************************************)
(* JavaScript built-ins used by parseRobotLine.                            *)
(***************************************************************************)

\* White space and line terminators that String.prototype.trim and parseInt
\* strip (the ones the model's inputs use).
WhiteSpace == {" ", "\t", "\r", "\n"}

\* String.prototype.trimStart
RECURSIVE trimStart(_)
trimStart(str) ==
    IF str # <<>> /\ Head(str) \in WhiteSpace THEN trimStart(Tail(str)) ELSE str

\* String.prototype.trimEnd
RECURSIVE trimEnd(_)
trimEnd(str) ==
    IF str # <<>> /\ str[Len(str)] \in WhiteSpace
        THEN trimEnd(SubSeq(str, 1, Len(str) - 1))
        ELSE str

\* String.prototype.trim
trim(str) == trimEnd(trimStart(str))

\* String.prototype.indexOf for a one-character search string: the 0-based
\* index of the first occurrence, or -1.
indexOf(str, char) ==
    IF \E i \in 1..Len(str) : str[i] = char
        THEN (CHOOSE i \in 1..Len(str) :
                  str[i] = char /\ \A j \in 1..(i - 1) : str[j] # char) - 1
        ELSE -1

\* String.prototype.substring(start, end) with 0-based start <= end <= length
substring(str, start, end) == SubSeq(str, start + 1, end)

\* String.prototype.substring(start)
substringFrom(str, start) == SubSeq(str, start + 1, Len(str))

\* Array.prototype.slice(start)
slice(arr, start) == SubSeq(arr, start + 1, Len(arr))

\* undefined, which an out-of-range parts[k] evaluates to; ToString(undefined)
\* is kept as one unit that is no white space, sign or digit.
Undefined == <<"undefined">>

\* parts[k], 0-based
At(parts, k) == IF k + 1 \in 1..Len(parts) THEN parts[k + 1] ELSE Undefined

\* A JavaScript number that parseInt can return: NaN or an integer.
NaN == [nan |-> TRUE, n |-> 0]
Num(n) == [nan |-> FALSE, n |-> n]
isNaN(x) == x.nan

Digits == <<"0", "1", "2", "3", "4", "5", "6", "7", "8", "9",
            "a", "b", "c", "d", "e", "f">>
UpperDigits == <<"0", "1", "2", "3", "4", "5", "6", "7", "8", "9",
                 "A", "B", "C", "D", "E", "F">>

\* The value of char as a digit of the radix, or -1 when it is none.
DigitValue(char, radix) ==
    IF \E k \in 1..radix : Digits[k] = char \/ UpperDigits[k] = char
        THEN (CHOOSE k \in 1..radix : Digits[k] = char \/ UpperDigits[k] = char) - 1
        ELSE -1

\* The longest prefix of str made of digits of the radix (parseInt step 11).
RECURSIVE DigitPrefix(_, _)
DigitPrefix(str, radix) ==
    IF str # <<>> /\ DigitValue(Head(str), radix) >= 0
        THEN <<Head(str)>> \o DigitPrefix(Tail(str), radix)
        ELSE <<>>

\* The integer that the digits denote in the radix.
RECURSIVE DigitsValue(_, _)
DigitsValue(str, radix) ==
    IF str = <<>> THEN 0
    ELSE DigitsValue(SubSeq(str, 1, Len(str) - 1), radix) * radix
         + DigitValue(str[Len(str)], radix)

\* parseInt(string) with no radix (ECMAScript parseInt): leading white space
\* is skipped, a sign is read, a 0x or 0X prefix selects radix 16, the longest
\* prefix of digits is converted and what follows it is ignored; NaN when
\* that prefix is empty.
parseInt(str) ==
    LET S == trimStart(str)
        sign == IF S # <<>> /\ Head(S) = "-" THEN -1 ELSE 1
        S1 == IF S # <<>> /\ Head(S) \in {"+", "-"} THEN Tail(S) ELSE S
        hex == Len(S1) >= 2 /\ S1[1] = "0" /\ S1[2] \in {"x", "X"}
        R == IF hex THEN 16 ELSE 10
        S2 == IF hex THEN SubSeq(S1, 3, Len(S1)) ELSE S1
        Z == DigitPrefix(S2, R)
    IN IF Z = <<>> THEN NaN ELSE Num(sign * DigitsValue(Z, R))

(***************************************************************************)
(* parseRobotLine (src/lib/parser.ts 63-174)                               *)
(***************************************************************************)
MSG == <<"M", "S", "G">>
PRGC == <<"P", "R", "G", "C">>
PRGT == <<"P", "R", "G", "T">>
PRGV == <<"P", "R", "G", "V">>
DRV == <<"D", "R", "V">>
TCOUT == <<"T", "C", "O", "U", "T">>
CINFO == <<"C", "I", "N", "F", "O">>
TINFO == <<"T", "I", "N", "F", "O">>
SINFO == <<"S", "I", "N", "F", "O">>

\* null, as a record that equals no RobotOutput record
Null == [type |-> <<"null">>]

\* Mutant: params starts at the format field.
parseMSGParamsFromFormat(rest) ==
    LET parts == parseRobotValues(rest)
        code == parseInt(At(parts, 0))
        flags == parseInt(At(parts, 1))
        count == parseInt(At(parts, 2))
    IN IF Len(parts) < 5 THEN Null
       ELSE IF isNaN(code) \/ isNaN(flags) \/ isNaN(count) THEN Null
       ELSE [type |-> MSG, code |-> code, flags |-> flags, count |-> count,
             message |-> At(parts, 3), format |-> At(parts, 4),
             params |-> slice(parts, 4)]

\* lines 76-92: case "MSG"
parseMSG(rest) ==
    LET parts == parseRobotValues(rest)
        code == parseInt(At(parts, 0))
        flags == parseInt(At(parts, 1))
        count == parseInt(At(parts, 2))
    IN IF Len(parts) < 5 THEN Null
       ELSE IF isNaN(code) \/ isNaN(flags) \/ isNaN(count) THEN Null
       ELSE [type |-> MSG, code |-> code, flags |-> flags, count |-> count,
             message |-> At(parts, 3), format |-> At(parts, 4),
             params |-> slice(parts, 5)]

\* lines 94-107: case "PRGC", case "PRGT"
parsePRGCT(type, rest) ==
    LET parts == parseRobotValues(rest)
        code == parseInt(At(parts, 0))
        id == parseInt(At(parts, 1))
    IN IF Len(parts) < 3 THEN Null
       ELSE IF isNaN(code) \/ isNaN(id) THEN Null
       ELSE [type |-> type, code |-> code, id |-> id, name |-> At(parts, 2)]

\* lines 109-122: case "PRGV"
parsePRGV(rest) ==
    LET parts == parseRobotValues(rest)
        current == parseInt(At(parts, 0))
        total == parseInt(At(parts, 1))
        max == parseInt(At(parts, 2))
    IN IF Len(parts) < 3 THEN Null
       ELSE IF isNaN(current) \/ isNaN(total) \/ isNaN(max) THEN Null
       ELSE [type |-> PRGV, current |-> current, total |-> total, max |-> max]

\* Mutant: a DRV line is accepted from five fields on.
parseDRVFiveFields(rest) ==
    LET parts == parseRobotValues(rest)
        index == parseInt(At(parts, 0))
        flags == parseInt(At(parts, 3))
    IN IF Len(parts) < 5 THEN Null
       ELSE IF isNaN(index) \/ isNaN(flags) THEN Null
       ELSE [type |-> DRV, index |-> index,
             visible |-> (At(parts, 1) = <<"1">>),
             enabled |-> (At(parts, 2) = <<"1">>),
             flags |-> flags, driveName |-> At(parts, 4),
             discName |-> At(parts, 5)]

\* Mutant: visible and enabled compare the parsed integers with 1.
parseDRVFlagsParsed(rest) ==
    LET parts == parseRobotValues(rest)
        index == parseInt(At(parts, 0))
        flags == parseInt(At(parts, 3))
    IN IF Len(parts) < 6 THEN Null
       ELSE IF isNaN(index) \/ isNaN(flags) THEN Null
       ELSE [type |-> DRV, index |-> index,
             visible |-> (parseInt(At(parts, 1)) = Num(1)),
             enabled |-> (parseInt(At(parts, 2)) = Num(1)),
             flags |-> flags, driveName |-> At(parts, 4),
             discName |-> At(parts, 5)]

\* lines 124-139: case "DRV"
parseDRV(rest) ==
    LET parts == parseRobotValues(rest)
        index == parseInt(At(parts, 0))
        flags == parseInt(At(parts, 3))
    IN IF Len(parts) < 6 THEN Null
       ELSE IF isNaN(index) \/ isNaN(flags) THEN Null
       ELSE [type |-> DRV, index |-> index,
             visible |-> (At(parts, 1) = <<"1">>),
             enabled |-> (At(parts, 2) = <<"1">>),
             flags |-> flags, driveName |-> At(parts, 4),
             discName |-> At(parts, 5)]

\* Mutant: the count is returned without the isNaN check.
parseTCOUTNoNaNCheck(rest) ==
    LET parts == parseRobotValues(rest)
    IN IF Len(parts) < 1 THEN Null
       ELSE [type |-> TCOUT, count |-> parseInt(At(parts, 0))]

\* lines 141-150: case "TCOUT"
parseTCOUT(rest) ==
    LET parts == parseRobotValues(rest)
        count == parseInt(At(parts, 0))
    IN IF Len(parts) < 1 THEN Null
       ELSE IF isNaN(count) THEN Null
       ELSE [type |-> TCOUT, count |-> count]

\* Mutant: the value is the last field of the line.
InfoValueLastField(parts) == At(parts, Len(parts) - 1)

\* line 164: value: parts[2]
InfoValue(parts) == At(parts, 2)

\* lines 152-166: case "CINFO", case "TINFO", case "SINFO"
parseINFO(type, rest) ==
    LET parts == parseRobotValues(rest)
        id == parseInt(At(parts, 0))
        code == parseInt(At(parts, 1))
    IN IF Len(parts) < 3 THEN Null
       ELSE IF isNaN(id) \/ isNaN(code) THEN Null
       ELSE [type |-> type, id |-> id, code |-> code, value |-> InfoValue(parts)]

\* Mutant: a tag the switch does not list is decoded as an information line.
DispatchDefaultInfo(type, rest) ==
    IF type = MSG THEN parseMSG(rest)
    ELSE IF type \in {PRGC, PRGT} THEN parsePRGCT(type, rest)
    ELSE IF type = PRGV THEN parsePRGV(rest)
    ELSE IF type = DRV THEN parseDRV(rest)
    ELSE IF type = TCOUT THEN parseTCOUT(rest)
    ELSE parseINFO(type, rest)

\* lines 75-170: switch (type)
Dispatch(type, rest) ==
    IF type = MSG THEN parseMSG(rest)
    ELSE IF type \in {PRGC, PRGT} THEN parsePRGCT(type, rest)
    ELSE IF type = PRGV THEN parsePRGV(rest)
    ELSE IF type = DRV THEN parseDRV(rest)
    ELSE IF type = TCOUT THEN parseTCOUT(rest)
    ELSE IF type \in {CINFO, TINFO, SINFO} THEN parseINFO(type, rest)
    ELSE Null

\* lines 63-174. Nothing in the try block throws (parseInt, isNaN, indexing
\* past the end and slice are total), so the catch clause is never entered.
parseRobotLine(ln) ==
    LET trimmed == trim(ln)
        colonIndex == indexOf(trimmed, COLON)
    IN IF trimmed = <<>> THEN Null
       ELSE IF colonIndex = -1 THEN Null
       ELSE Dispatch(substring(trimmed, 0, colonIndex),
                     substringFrom(trimmed, colonIndex + 1))

(***************************************************************************)
(* parseRobotOutput (src/lib/parser.ts 179-184)                            *)
(***************************************************************************)

\* String.prototype.split("\n"): the pieces between the line feeds; one
\* (empty) piece for the empty string.
RECURSIVE split(_)
split(str) ==
    LET i == indexOf(str, NEWLINE)
    IN IF i = -1 THEN <<str>>
       ELSE <<substring(str, 0, i)>> \o split(substringFrom(str, i + 1))

\* Mutant: the decoding stops at the first rejected line.
mapFilterAbort(ls) ==
    LET rejected == {i \in 1..Len(ls) : parseRobotLine(ls[i]) = Null}
        n == IF rejected = {} THEN Len(ls)
             ELSE (CHOOSE i \in rejected : \A j \in rejected : i <= j) - 1
    IN [i \in 1..n |-> parseRobotLine(ls[i])]

\* .map((line) => parseRobotLine(line)).filter((item) => item !== null)
RECURSIVE mapFilter(_)
mapFilter(ls) ==
    IF ls = <<>> THEN <<>>
    ELSE LET item == parseRobotLine(Head(ls))
         IN IF item # Null THEN <<item>> \o mapFilter(Tail(ls))
            ELSE mapFilter(Tail(ls))

parseRobotOutput(out) == mapFilter(split(out))

(***************************************************************************)
(* parseDiscInfo (src/lib/parser.ts 195-232)                               *)
(*                                                                         *)
(* A Map<AttributeId, string> is a function from the keys set so far; the  *)
(* Map<number, TitleInfo> is the sequence of its values in insertion       *)
(* order, which is what Array.from(titlesMap.values()) returns.            *)
(***************************************************************************)

\* Mutant: a key that is already set keeps its value.
MapSetKeepFirst(m, key, v) ==
    [k \in DOMAIN m \cup {key} |-> IF k \in DOMAIN m THEN m[k] ELSE v]

\* Map.prototype.set on an attribute map
MapSet(m, key, v) == [k \in DOMAIN m \cup {key} |-> IF k = key THEN v ELSE m[k]]

\* titlesMap.has(id)
TitlesHas(titles, id) == \E i \in 1..Len(titles) : titles[i].id = id

\* the position in titlesMap of titlesMap.get(id)
TitleIndex(titles, id) == CHOOSE i \in 1..Len(titles) : titles[i].id = id

\* Mutant: a title is created for every TINFO record.
TitlesEnsureAlways(titles, id) ==
    Append(titles, [id |-> id, attributes |-> <<>>, streams |-> <<>>])

\* Mutant: a new title is put before the first title of a greater id, which
\* keeps the titles in numeric order.
TitlesEnsureSorted(titles, id) ==
    IF \E i \in 1..Len(titles) : titles[i].id = id THEN titles
    ELSE LET smaller == {i \in 1..Len(titles) : titles[i].id.n < id.n}
             n == Cardinality(smaller)
         IN SubSeq(titles, 1, n)
            \o <<[id |-> id, attributes |-> <<>>, streams |-> <<>>]>>
            \o SubSeq(titles, n + 1, Len(titles))

\* lines 207-213: if (!titlesMap.has(item.id)) titlesMap.set(item.id, {...})
TitlesEnsure(titles, id) ==
    IF TitlesHas(titles, id) THEN titles
    ELSE Append(titles, [id |-> id, attributes |-> <<>>, streams |-> <<>>])

\* Mutant: a CINFO value is stored under the record's code.
DiscStepCinfoByCode(acc, item) ==
    IF item.type = CINFO
        THEN [acc EXCEPT !.attributes = MapSet(@, item.code, item.value)]
    ELSE IF item.type = TINFO
        THEN LET ts == TitlesEnsure(acc.titles, item.id)
                 i == TitleIndex(ts, item.id)
             IN [acc EXCEPT !.titles =
                    [ts EXCEPT ![i].attributes = MapSet(@, item.code, item.value)]]
    ELSE acc

\* Mutant: a SINFO record is handled as a TINFO record.
DiscStepSinfoAsTinfo(acc, item) ==
    IF item.type = CINFO
        THEN [acc EXCEPT !.attributes = MapSet(@, item.id, item.value)]
    ELSE IF item.type \in {TINFO, SINFO}
        THEN LET ts == TitlesEnsure(acc.titles, item.id)
                 i == TitleIndex(ts, item.id)
             IN [acc EXCEPT !.titles =
                    [ts EXCEPT ![i].attributes = MapSet(@, item.code, item.value)]]
    ELSE acc

\* lines 200-222: the body of the loop, for one item
DiscStep(acc, item) ==
    IF item.type = CINFO
        THEN [acc EXCEPT !.attributes = MapSet(@, item.id, item.value)]
    ELSE IF item.type = TINFO
        THEN LET ts == TitlesEnsure(acc.titles, item.id)
                 i == TitleIndex(ts, item.id)
             IN [acc EXCEPT !.titles =
                    [ts EXCEPT ![i].attributes = MapSet(@, item.code, item.value)]]
    ELSE acc

\* line 199: for (const item of robotOutput)
RECURSIVE DiscLoop(_, _)
DiscLoop(acc, items) ==
    IF items = <<>> THEN acc ELSE DiscLoop(DiscStep(acc, Head(items)), Tail(items))

\* lines 195-232
parseDiscInfo(items) == DiscLoop([attributes |-> <<>>, titles |-> <<>>], items)

(***************************************************************************)
(* parseDiscInfoAdvanced (src/lib/parser.ts 238-282)                       *)
(***************************************************************************)

\* streamsMap.has(key); the key `${item.id}-${item.code}` is kept as the pair
\* of the two numbers, which the template string determines and is
\* determined by.
StreamsHas(streams, key) == \E i \in 1..Len(streams) : streams[i].key = key

StreamIndex(streams, key) == CHOOSE i \in 1..Len(streams) : streams[i].key = key

\* lines 261-266: if (!streamsMap.has(key)) streamsMap.set(key, {...})
StreamsEnsure(streams, key, id) ==
    IF StreamsHas(streams, key) THEN streams
    ELSE Append(streams, [key |-> key, id |-> id, attributes |-> <<>>])

\* lines 245-269: the body of the first pass, for one item
AdvancedStep(acc, item) ==
    IF item.type = CINFO
        THEN [acc EXCEPT !.attributes = MapSet(@, item.code, item.value)]
    ELSE IF item.type = TINFO
        THEN LET ts == TitlesEnsure(acc.titles, item.id)
                 i == TitleIndex(ts, item.id)
             IN [acc EXCEPT !.titles =
                    [ts EXCEPT ![i].attributes = MapSet(@, item.code, item.value)]]
    ELSE IF item.type = SINFO
        THEN LET key == <<item.id, item.code>>
                 ss == StreamsEnsure(acc.streams, key, item.id)
                 i == StreamIndex(ss, key)
             IN [acc EXCEPT !.streams =
                    [ss EXCEPT ![i].attributes = MapSet(@, item.code, item.value)]]
    ELSE acc

\* line 244: for (const item of robotOutput)
RECURSIVE AdvancedLoop(_, _)
AdvancedLoop(acc, items) ==
    IF items = <<>> THEN acc
    ELSE AdvancedLoop(AdvancedStep(acc, Head(items)), Tail(items))

\* lines 238-282: the streams map is filled and then left out of the result
parseDiscInfoAdvanced(items) ==
    LET acc == AdvancedLoop([attributes |-> <<>>, titles |-> <<>>, streams |-> <<>>],
                            items)
    IN [attributes |-> acc.attributes, titles |-> acc.titles]

(***************************************************************************)
(* getTitleCount (src/lib/parser.ts 319-324)                               *)
(***************************************************************************)

\* undefined, where find returns it: an item that equals no record
UndefinedItem == [type |-> Undefined]

\* lines 320-322: robotOutput.find((item) => item.type === "TCOUT"), the
\* first such item or undefined
findTCOUT(items) ==
    IF \E i \in 1..Len(items) : items[i].type = TCOUT
        THEN items[CHOOSE i \in 1..Len(items) :
                       items[i].type = TCOUT
                       /\ \A j \in 1..(i - 1) : items[j].type # TCOUT]
        ELSE UndefinedItem

\* line 323: tcout?.count ?? null
getTitleCount(items) ==
    LET tcout == findTCOUT(items)
    IN IF tcout = UndefinedItem THEN Null ELSE tcout.count

\* Mutant: only the first record of the type is kept.
filterFirst(items, type) ==
    LET at == {i \in 1..Len(items) : items[i].type = type}
    IN IF at = {} THEN <<>>
       ELSE <<items[CHOOSE i \in at : \A j \in at : i <= j]>>

\* lines 298-301, 311-313: robotOutput.filter((item) => item.type === type)
filter(items, type) ==
    LET Test(item) == item.type = type
    IN SelectSeq(items, Test)

\* lines 297-303: .filter(MSG).map((msg) => msg.message)
getMessages(items) ==
    LET msgs == filter(items, MSG)
    IN [k \in 1..Len(msgs) |-> msgs[k].message]

\* lines 308-314
getDrives(items) == filter(items, DRV)

\* A property read: undefined when the object has no such property.
GetProperty(obj, name) == IF name \in DOMAIN obj THEN obj[name] ELSE Undefined

\* src/lib/types.ts 10-62: the name of an AttributeId (the ids the inputs use)
AttributeName(id) ==
    CASE id = Num(0) -> "Unknown"
      [] id = Num(1) -> "Type"
      [] id = Num(2) -> "Name"
      [] id = Num(9) -> "Duration"
      [] id = Num(16) -> "SourceFileName"
      [] id = Num(32) -> "VolumeName"

(***************************************************************************)
(* parseDiscInfo with the objects it creates (src/lib/parser.ts 195-232)   *)
(*                                                                         *)
(* The heap is the sequence of the objects created so far and an address   *)
(* is a position in it.  A Map object holds its entries, an Array object   *)
(* its items, a title object its id and the addresses of its attribute Map *)
(* and of its streams Array.  The local titlesMap is the sequence of the   *)
(* addresses of the title objects in insertion order.                      *)
(***************************************************************************)

\* Mutant: one Map, created by the first call of all, is handed out again.
NewMapShared(h) ==
    IF \E a \in 1..Len(h) : h[a].kind = "Map"
        THEN [heap |-> h,
              addr |-> CHOOSE a \in 1..Len(h) :
                           /\ h[a].kind = "Map"
                           /\ \A b \in 1..Len(h) : h[b].kind = "Map" => a <= b]
    ELSE [heap |-> Append(h, [kind |-> "Map", entries |-> <<>>]), addr |-> Len(h) + 1]

\* new Map(): an empty Map at a new address
NewMap(h) ==
    [heap |-> Append(h, [kind |-> "Map", entries |-> <<>>]), addr |-> Len(h) + 1]

\* [] and Array.from(...): an Array at a new address
NewArray(h, items) ==
    [heap |-> Append(h, [kind |-> "Array", items |-> items]), addr |-> Len(h) + 1]

\* lines 208-212: { id: item.id, attributes: new Map(), streams: [] }
NewTitle(h, id) ==
    LET m == NewMap(h)
        s == NewArray(m.heap, <<>>)
    IN [heap |-> Append(s.heap, [kind |-> "Title", id |-> id,
                                 attributes |-> m.addr, streams |-> s.addr]),
        addr |-> Len(s.heap) + 1]

\* titlesMap.has(item.id)
HeapTitlesHas(st, id) ==
    \E k \in 1..Len(st.titlesMap) : st.heap[st.titlesMap[k]].id = id

\* titlesMap.get(item.id)
HeapTitlesGet(st, id) ==
    st.titlesMap[CHOOSE k \in 1..Len(st.titlesMap) : st.heap[st.titlesMap[k]].id = id]

\* lines 200-222: the body of the loop, for one item
HeapDiscStep(st, item) ==
    IF item.type = CINFO
        THEN [st EXCEPT !.heap[st.attributes].entries = MapSet(@, item.id, item.value)]
    ELSE IF item.type = TINFO
        THEN LET t == NewTitle(st.heap, item.id)
                 st1 == IF HeapTitlesHas(st, item.id) THEN st
                        ELSE [st EXCEPT !.heap = t.heap,
                                        !.titlesMap = Append(@, t.addr)]
                 title == st1.heap[HeapTitlesGet(st1, item.id)]
             IN [st1 EXCEPT !.heap[title.attributes].entries =
                                MapSet(@, item.code, item.value)]
    ELSE st

\* lines 199-223: for (const item of robotOutput)
RECURSIVE HeapDiscLoop(_, _)
HeapDiscLoop(st, items) ==
    IF items = <<>> THEN st
    ELSE HeapDiscLoop(HeapDiscStep(st, Head(items)), Tail(items))

\* lines 195-232: the heap after the call, and the object it returns
HeapParseDiscInfo(h, items) ==
    LET discAttributes == NewMap(h)
        st == HeapDiscLoop([heap |-> discAttributes.heap,
                            attributes |-> discAttributes.addr,
                            titlesMap |-> <<>>], items)
        titles == NewArray(st.heap, st.titlesMap)
    IN [heap |-> titles.heap,
        ref |-> [attributes |-> st.attributes, titles |-> titles.addr]]

(***************************************************************************)
(* Inputs of SpecValues.                                                   *)
(***************************************************************************)
Alphabet == {"a", "n", COMMA, QUOTE, BACKSLASH}

Strings(alphabet, maxLen) == UNION {[1..n -> alphabet] : n \in 0..maxLen}

Payloads == Strings(Alphabet, MaxLen)

\* Array.prototype.join(","): the fields separated by commas
RECURSIVE Join(_)
Join(fs) ==
    IF Len(fs) = 0 THEN <<>>
    ELSE IF Len(fs) = 1 THEN fs[1]
    ELSE fs[1] \o <<COMMA>> \o Join(Tail(fs))

\* Fields holding no comma, no double quote and no backslash.
PlainFields == Strings({"a", "n"}, MaxFieldLen)

FieldSeqs == UNION {[1..n -> PlainFields] : n \in 0..MaxFieldCount}

\* The caller holds either a raw payload or a field sequence that it joins.
InitValues ==
    /\ pc = "ready"
    /\ \/ fields = UnsetList /\ input \in Payloads
       \/ fields \in FieldSeqs /\ input = Join(fields)
    /\ tag = Unset
    /\ values = UnsetList
    /\ line = Unset
    /\ record = Null
    /\ lines = UnsetList
    /\ output = Unset
    /\ robotOutput = <<>>
    /\ discInfo = NoDiscInfo
    /\ OthersUnset

\* A caller calls parseRobotValues(input).
CallParseRobotValues ==
    /\ pc = "ready"
    /\ input # Unset
    /\ values' = parseRobotValues(input)
    /\ pc' = "done"
    /\ UNCHANGED <<fields, tag, input, line, record, lines, output, robotOutput, discInfo, others>>

NextValues == CallParseRobotValues

SpecValues == InitValues /\ [][NextValues]_vars

(***************************************************************************)
(* Command builder (src/lib/command.ts)                                    *)
(*                                                                         *)
(* An options object is a function from the names of its own properties    *)
(* to JavaScript values; a JavaScript value carries its kind (its typeof, null apart) and a field of that kind, so that    *)
(* the truthiness tests, the typeof test and the template literals are     *)
(* computed as the code computes them.                                     *)
(***************************************************************************)
Bool(b) == [kind |-> "boolean", bool |-> b]
Str(str) == [kind |-> "string", str |-> str]
Number(n) == [kind |-> "number", num |-> n]
UndefinedValue == [kind |-> "undefined"]
Object(v) == [kind |-> "object", obj |-> v]
NullValue == [kind |-> "null"]

\* options.name: undefined when the object has no such property
Get(obj, name) == IF name \in DOMAIN obj THEN obj[name] ELSE UndefinedValue

\* if (v), v ? a : b
Truthy(v) ==
    IF v.kind = "boolean" THEN v.bool
    ELSE IF v.kind = "number" THEN v.num # 0
    ELSE IF v.kind = "string" THEN v.str # <<>>
    ELSE v.kind = "object"

\* String(n) of a natural number: its decimal digits
RECURSIVE NumberToString(_)
NumberToString(n) ==
    LET digit == <<"0", "1", "2", "3", "4", "5", "6", "7", "8", "9">>[(n % 10) + 1]
    IN IF n < 10 THEN <<digit>> ELSE NumberToString(n \div 10) \o <<digit>>

\* ${v} in a template literal
ToText(v) ==
    IF v.kind = "boolean" THEN (IF v.bool THEN <<"t", "r", "u", "e">> ELSE <<"f", "a", "l", "s", "e">>)
    ELSE IF v.kind = "number" THEN NumberToString(v.num)
    ELSE IF v.kind = "string" THEN v.str
    ELSE <<"u", "n", "d", "e", "f", "i", "n", "e", "d">>

\* { ...defaults, ...options }
Spread(defaults, opts) ==
    [k \in DOMAIN defaults \cup DOMAIN opts |->
        IF k \in DOMAIN opts THEN opts[k] ELSE defaults[k]]

\* if (options.name !== undefined) args.push(`prefix${options.name}`)
PushIfDefined(opts, name, prefix) ==
    IF Get(opts, name).kind # "undefined"
        THEN <<prefix \o ToText(Get(opts, name))>>
    ELSE <<>>

\* lines 16-52
buildGeneralArgs(opts) ==
    PushIfDefined(opts, "messages", <<"-", "-", "m", "e", "s", "s", "a", "g", "e", "s", "=">>)
    \o PushIfDefined(opts, "progress", <<"-", "-", "p", "r", "o", "g", "r", "e", "s", "s", "=">>)
    \o (IF Get(opts, "debug").kind = "undefined" THEN <<>>
        ELSE IF Get(opts, "debug").kind = "boolean"
            THEN (IF Get(opts, "debug").bool THEN <<<<"-", "-", "d", "e", "b", "u", "g">>>> ELSE <<>>)
        ELSE <<<<"-", "-", "d", "e", "b", "u", "g", "=">> \o ToText(Get(opts, "debug"))>>)
    \o PushIfDefined(opts, "directio", <<"-", "-", "d", "i", "r", "e", "c", "t", "i", "o", "=">>)
    \o (IF Truthy(Get(opts, "noscan")) THEN <<<<"-", "-", "n", "o", "s", "c", "a", "n">>>> ELSE <<>>)
    \o PushIfDefined(opts, "cache", <<"-", "-", "c", "a", "c", "h", "e", "=">>)
    \o (IF Truthy(Get(opts, "robot")) THEN <<<<"-", "r">>>> ELSE <<>>)

\* lines 57-73
buildStreamingArgs(opts) ==
    (IF Get(opts, "upnp").kind # "undefined"
        THEN <<<<"-", "-", "u", "p", "n", "p", "=">> \o (IF Truthy(Get(opts, "upnp")) THEN <<"t", "r", "u", "e">> ELSE <<"f", "a", "l", "s", "e">>)>>
     ELSE <<>>)
    \o PushIfDefined(opts, "bindip", <<"-", "-", "b", "i", "n", "d", "i", "p", "=">>)
    \o PushIfDefined(opts, "bindport", <<"-", "-", "b", "i", "n", "d", "p", "o", "r", "t", "=">>)

\* lines 78-86
buildBackupArgs(opts) ==
    IF Truthy(Get(opts, "decrypt")) THEN <<<<"-", "-", "d", "e", "c", "r", "y", "p", "t">>>> ELSE <<>>

\* lines 91-101
buildConversionArgs(opts) == PushIfDefined(opts, "minlength", <<"-", "-", "m", "i", "n", "l", "e", "n", "g", "t", "h", "=">>)

\* Mutant: the command name comes first.
buildCommandNameFirst(cs) ==
    <<cs.command>> \o buildGeneralArgs(cs.options) \o cs.args

\* lines 118-121: [...generalArgs, spec.command, ...spec.args]
buildCommand(cs) ==
    buildGeneralArgs(cs.options) \o <<cs.command>> \o cs.args

\* lines 126-135
buildInfoCommand(discIndex, opts) ==
    [command |-> <<"i", "n", "f", "o">>,
     args |-> <<<<"d", "i", "s", "c", ":">> \o NumberToString(discIndex)>>,
     options |-> Spread([robot |-> Bool(TRUE)], opts)]

\* lines 140-148
buildListDrivesCommand(opts) ==
    [command |-> <<"i", "n", "f", "o">>,
     args |-> <<<<"d", "i", "s", "c", ":", "9", "9", "9", "9">>>>,
     options |-> Spread([robot |-> Bool(TRUE), cache |-> Number(1)], opts)]

\* titles === "all" ? "all" : titles.join(","); titles is "all" as a string
\* value or an array of numbers
TitleArg(titles) ==
    IF titles.kind = "string" THEN <<"a", "l", "l">>
    ELSE Join([k \in 1..Len(titles.obj) |-> NumberToString(titles.obj[k])])

\* lines 153-172
buildMkvCommand(discIndex, titles, outputFolder, opts) ==
    [command |-> <<"m", "k", "v">>,
     args |-> buildConversionArgs(opts)
              \o <<<<"d", "i", "s", "c", ":">> \o NumberToString(discIndex), TitleArg(titles), outputFolder>>,
     options |-> opts]

\* lines 177-193
buildBackupCommand(discIndex, outputFolder, opts) ==
    [command |-> <<"b", "a", "c", "k", "u", "p">>,
     args |-> buildBackupArgs(opts)
              \o <<<<"d", "i", "s", "c", ":">> \o NumberToString(discIndex), outputFolder>>,
     options |-> opts]

\* lines 198-208
buildStreamCommand(opts) ==
    [command |-> <<"s", "t", "r", "e", "a", "m">>, args |-> buildStreamingArgs(opts), options |-> opts]

(***************************************************************************)
(* Inputs of SpecLine: lines TAG:field,...,field of up to MaxFields fields, *)
(* every field one of two ordinary texts and at most one field a probe,    *)
(* and a set of odd lines (blank, padded, no colon, unknown tag, the       *)
(* lines of the tests).                                                    *)
(***************************************************************************)
Tags == {MSG, PRGC, PRGT, PRGV, DRV, TCOUT, CINFO, TINFO, SINFO}

BaseTexts == {<<"1">>, <<QUOTE, "a", QUOTE>>}

ProbeTexts ==
    {<<"5", "a", "b", "c">>,
     <<"0", "x", "1", "0">>,
     <<"1", "e", "3">>,
     <<>>,
     <<"-", "7">>,
     <<"1", "6">>,
     <<"0">>,
     <<QUOTE, "a", COMMA, "b", QUOTE>>}

LineFieldSeqs ==
    UNION {
        UNION { {base} \cup {[base EXCEPT ![p] = t] : p \in 1..n, t \in ProbeTexts}
                : base \in [1..n -> BaseTexts] }
        : n \in 0..MaxFields }

BuildLine(t, fs) == t \o <<COLON>> \o Join(fs)

OddLines ==
    {<<>>,
     <<" ">>,
     <<"\t", " ", "\r">>,
     <<"I", "N", "V", "A", "L", "I", "D">>,
     <<"I", "N", "V", "A", "L", "I", "D", " ", "L", "I", "N", "E">>,
     <<" ", "T", "C", "O", "U", "T", COLON, "5", " ">>,
     <<"\t", "T", "C", "O", "U", "T", COLON, "5", "\r">>,
     <<"t", "c", "o", "u", "t", COLON, "5">>,
     <<"T", "C", "O", "U", "T">>,
     <<COLON, "1", COMMA, "2", COMMA, "3">>,
     <<"X", "I", "N", "F", "O", COLON, "1", COMMA, "1", COMMA, QUOTE, "a", QUOTE>>,
     <<"T", "I", "N", "F", "O", " ", COLON, "1", COMMA, "1", COMMA, "1">>,
     <<"T", "C", "O", "U", "T", COLON, "5", COLON, "6">>,
     <<"T", "C", "O", "U", "T", COLON, " ", "5">>,
     <<"T", "I", "N", "F", "O", COLON, "0", COMMA, "1", "6", COMMA, "0", COMMA, QUOTE, "0", "0", "0", "0", "1", ".", "m", "2", "t", "s", QUOTE>>,
     <<"S", "I", "N", "F", "O", COLON, "0", COMMA, "1", COMMA, "0", COMMA, QUOTE, "V", "i", "d", "e", "o", QUOTE>>,
     <<"C", "I", "N", "F", "O", COLON, "3", "2", COMMA, "0", COMMA, QUOTE, "V", "O", "L", "U", "M", "E", "_", "N", "A", "M", "E", QUOTE>>,
     <<"P", "R", "G", "C", COLON, "1", COMMA, "0", COMMA, QUOTE, "a", COLON, "b", QUOTE>>,
     <<"T", "C", "O", "U", "T", COLON>>,
     <<" ", " ", "T", "C", "O", "U", "T", COLON>>,
     <<"T", "C", "O", "U", "T", COLON, QUOTE, QUOTE>>,
     <<"M", "S", "G", COLON, "3", "3", "0", "7", COMMA, "0", COMMA, "2", COMMA,
       QUOTE, "a", QUOTE, COMMA, QUOTE, "b", QUOTE, COMMA,
       QUOTE, "f", ".", "m", "k", "v", QUOTE, COMMA, QUOTE, "0", QUOTE>>}

InitLine ==
    /\ pc = "ready"
    /\ \/ /\ tag \in Tags
          /\ fields \in LineFieldSeqs
          /\ line = BuildLine(tag, fields)
       \/ /\ tag = Unset
          /\ fields = UnsetList
          /\ line \in OddLines
    /\ input = Unset
    /\ values = UnsetList
    /\ record = Null
    /\ lines = UnsetList
    /\ output = Unset
    /\ robotOutput = <<>>
    /\ discInfo = NoDiscInfo
    /\ OthersUnset

\* A caller calls parseRobotLine(line).
CallParseRobotLine ==
    /\ pc = "ready"
    /\ line # Unset
    /\ record' = parseRobotLine(line)
    /\ pc' = "done"
    /\ UNCHANGED <<fields, tag, input, values, line, lines, output, robotOutput, discInfo, others>>

NextLine == CallParseRobotLine

SpecLine == InitLine /\ [][NextLine]_vars

(***************************************************************************)
(* Inputs of SpecDisc: texts of up to MaxLines lines, each line one of the *)
(* four-field TINFO lines of TinfoShapes or one of OtherLines.             *)
(***************************************************************************)

\* TINFO:t,a,m,"v" as makemkvcon prints it: title number, attribute id,
\* message code, quoted value.
TinfoShapes ==
    {[t |-> <<"0">>, a |-> <<"2">>, m |-> <<"0">>, v |-> <<"T", "i", "t", "l", "e", " ", "1">>],
     [t |-> <<"0">>, a |-> <<"1", "6">>, m |-> <<"0">>, v |-> <<"0", "0", "0", "0", "1", ".", "m", "2", "t", "s">>],
     [t |-> <<"1">>, a |-> <<"2">>, m |-> <<"0">>, v |-> <<"T", "i", "t", "l", "e", " ", "2">>],
     [t |-> <<"0">>, a |-> <<"2">>, m |-> <<"0">>, v |-> <<"T", "i", "t", "l", "e", " ", "X">>],
     [t |-> <<"5">>, a |-> <<"2">>, m |-> <<"1">>, v |-> <<"T", "i", "t", "l", "e", " ", "5">>]}

TinfoLine(d) ==
    TINFO \o <<COLON>> \o d.t \o <<COMMA>> \o d.a \o <<COMMA>> \o d.m \o <<COMMA>>
        \o <<QUOTE>> \o d.v \o <<QUOTE>>

OtherLines ==
    {<<"C", "I", "N", "F", "O", COLON, "1", COMMA, "0", COMMA, QUOTE, "D", "V", "D", QUOTE>>,
     <<"C", "I", "N", "F", "O", COLON, "3", "2", COMMA, "0", COMMA, QUOTE, "M", "Y", "_", "D", "I", "S", "C", QUOTE>>,
     <<"C", "I", "N", "F", "O", COLON, "1", COMMA, "0", COMMA, QUOTE, "B", "D", QUOTE>>,
     <<"T", "C", "O", "U", "T", COLON, "2">>,
     <<"T", "C", "O", "U", "T", COLON, "7">>,
     <<"S", "I", "N", "F", "O", COLON, "0", COMMA, "1", COMMA, "0", COMMA, QUOTE, "V", "i", "d", "e", "o", QUOTE>>,
     <<"M", "S", "G", COLON, "5", "0", "0", "5", COMMA, "0", COMMA, "0", COMMA, QUOTE, "M", "a", "k", "e", "M", "K", "V", QUOTE, COMMA, QUOTE, "v", "%", "1", QUOTE>>,
     <<"D", "R", "V", COLON, "0", COMMA, "1", COMMA, "1", COMMA, "0", COMMA, QUOTE, "D", "r", "i", "v", "e", " ", "1", QUOTE, COMMA, QUOTE, "D", "i", "s", "c", " ", "1", QUOTE>>,
     <<"I", "N", "V", "A", "L", "I", "D", " ", "L", "I", "N", "E">>,
     <<>>}

DiscLines == {TinfoLine(d) : d \in TinfoShapes} \cup OtherLines

\* The lines separated by line feeds.
RECURSIVE JoinLines(_)
JoinLines(ls) ==
    IF Len(ls) = 0 THEN <<>>
    ELSE IF Len(ls) = 1 THEN ls[1]
    ELSE ls[1] \o <<NEWLINE>> \o JoinLines(Tail(ls))

InitDisc ==
    /\ pc = "ready"
    /\ fields = UnsetList
    /\ tag = Unset
    /\ input = Unset
    /\ values = UnsetList
    /\ line = Unset
    /\ record = Null
    /\ lines \in UNION {[1..n -> DiscLines] : n \in 0..MaxLines}
    /\ output = JoinLines(lines)
    /\ robotOutput = <<>>
    /\ discInfo = NoDiscInfo
    /\ OthersUnset

\* const parsed = parseRobotOutput(robotText)
CallParseRobotOutput ==
    /\ pc = "ready"
    /\ output # Unset
    /\ robotOutput' = parseRobotOutput(output)
    /\ pc' = "parsed"
    /\ UNCHANGED <<fields, tag, input, values, line, record, lines, output, discInfo, others>>

\* const discInfo = parseDiscInfo(parsed)
CallParseDiscInfo ==
    /\ pc = "parsed"
    /\ discInfo' = parseDiscInfo(robotOutput)
    /\ pc' = "aggregated"
    /\ UNCHANGED <<fields, tag, input, values, line, record, lines, output, robotOutput, others>>

NextDisc == CallParseRobotOutput \/ CallParseDiscInfo

SpecDisc == InitDisc /\ [][NextDisc]_vars

(***************************************************************************)
(* Inputs of SpecRecords: sequences of up to MaxRecords records, each one  *)
(* of RecordPool (records as parseRobotLine returns them).                 *)
(***************************************************************************)
Info(type, id, code, value) ==
    [type |-> type, id |-> Num(id), code |-> Num(code), value |-> value]

RecordPool ==
    {Info(CINFO, 1, 0, <<"A">>), Info(CINFO, 1, 0, <<"B">>), Info(CINFO, 32, 1, <<"A">>),
     Info(TINFO, 0, 2, <<"A">>), Info(TINFO, 0, 2, <<"B">>), Info(TINFO, 0, 16, <<"A">>),
     Info(TINFO, 5, 2, <<"A">>), Info(TINFO, 1, 2, <<"B">>),
     Info(SINFO, 0, 1, <<"V">>),
     [type |-> TCOUT, count |-> Num(2)], [type |-> TCOUT, count |-> Num(7)],
     [type |-> MSG, code |-> Num(5005), flags |-> Num(0), count |-> Num(0),
      message |-> <<"M">>, format |-> <<"F">>, params |-> <<>>],
     [type |-> MSG, code |-> Num(5010), flags |-> Num(0), count |-> Num(0),
      message |-> <<"S">>, format |-> <<"S">>, params |-> <<>>],
     [type |-> DRV, index |-> Num(0), visible |-> TRUE, enabled |-> TRUE,
      flags |-> Num(0), driveName |-> <<"D">>, discName |-> <<"N">>],
     [type |-> DRV, index |-> Num(1), visible |-> TRUE, enabled |-> FALSE,
      flags |-> Num(0), driveName |-> <<"E">>, discName |-> <<>>],
     [type |-> PRGC, code |-> Num(1), id |-> Num(0), name |-> <<"S">>],
     [type |-> PRGT, code |-> Num(2), id |-> Num(1), name |-> <<"T">>],
     [type |-> PRGV, current |-> Num(1), total |-> Num(2), max |-> Num(3)]}

RecordSeqs == UNION {[1..n -> RecordPool] : n \in 0..MaxRecords}

InitRecords ==
    /\ pc = "parsed"
    /\ fields = UnsetList
    /\ tag = Unset
    /\ input = Unset
    /\ values = UnsetList
    /\ line = Unset
    /\ record = Null
    /\ lines = UnsetList
    /\ output = Unset
    /\ robotOutput \in RecordSeqs
    /\ discInfo = NoDiscInfo
    /\ OthersUnset

\* parseDiscInfoAdvanced(robotOutput), on its own or after parseDiscInfo
CallParseDiscInfoAdvanced ==
    /\ pc \in {"parsed", "aggregated"}
    /\ discInfoAdvanced' = parseDiscInfoAdvanced(robotOutput)
    /\ pc' = "advanced"
    /\ UNCHANGED <<fields, tag, input, values, line, record, lines, output,
                   robotOutput, discInfo, result, heap, firstInfo, secondInfo, apiVars>>

\* getTitleCount(robotOutput)
CallGetTitleCount ==
    /\ pc = "parsed"
    /\ result' = getTitleCount(robotOutput)
    /\ pc' = "counted"
    /\ UNCHANGED <<fields, tag, input, values, line, record, lines, output,
                   robotOutput, discInfo, discInfoAdvanced, heap, firstInfo, secondInfo, apiVars>>

\* getMessages(robotOutput)
CallGetMessages ==
    /\ pc = "parsed"
    /\ result' = getMessages(robotOutput)
    /\ pc' = "messages"
    /\ UNCHANGED <<fields, tag, input, values, line, record, lines, output,
                   robotOutput, discInfo, discInfoAdvanced, heap, firstInfo, secondInfo, apiVars>>

\* getDrives(robotOutput)
CallGetDrives ==
    /\ pc = "parsed"
    /\ result' = getDrives(robotOutput)
    /\ pc' = "drives"
    /\ UNCHANGED <<fields, tag, input, values, line, record, lines, output,
                   robotOutput, discInfo, discInfoAdvanced, heap, firstInfo, secondInfo, apiVars>>

NextRecords ==
    \/ CallParseDiscInfo
    \/ CallParseDiscInfoAdvanced
    \/ CallGetTitleCount
    \/ CallGetMessages
    \/ CallGetDrives

SpecRecords == InitRecords /\ [][NextRecords]_vars

\* SpecTwice: a record sequence, then parseDiscInfo called on it twice.
InitTwice ==
    /\ pc = "parsed"
    /\ fields = UnsetList
    /\ tag = Unset
    /\ input = Unset
    /\ values = UnsetList
    /\ line = Unset
    /\ record = Null
    /\ lines = UnsetList
    /\ output = Unset
    /\ robotOutput \in RecordSeqs
    /\ discInfo = NoDiscInfo
    /\ OthersUnset

\* const first = parseDiscInfo(robotOutput)
CallFirst ==
    /\ pc = "parsed"
    /\ LET r == HeapParseDiscInfo(heap, robotOutput)
       IN /\ heap' = r.heap
          /\ firstInfo' = r.ref
    /\ pc' = "once"
    /\ UNCHANGED <<fields, tag, input, values, line, record, lines, output,
                   robotOutput, discInfo, discInfoAdvanced, result, secondInfo, apiVars>>

\* const second = parseDiscInfo(robotOutput)
CallSecond ==
    /\ pc = "once"
    /\ LET r == HeapParseDiscInfo(heap, robotOutput)
       IN /\ heap' = r.heap
          /\ secondInfo' = r.ref
    /\ pc' = "twice"
    /\ UNCHANGED <<fields, tag, input, values, line, record, lines, output,
                   robotOutput, discInfo, discInfoAdvanced, result, firstInfo, apiVars>>

NextTwice == CallFirst \/ CallSecond

SpecTwice == InitTwice /\ [][NextTwice]_vars

(***************************************************************************)
(* execute (src/unnamed/part_003 14-39) and the high-level API              *)
(* (src/unnamed/part_004).  The makemkvcon process is the environment: its  *)
(* exit code and the text it writes are chosen by the action.               *)
(***************************************************************************)

\* Mutant: the standard output is parsed whatever the options say.
executeParsesAlways(cs, code, out) ==
    [exitCode |-> code, stdout |-> out, stderr |-> <<>>,
     robotOutput |-> Object(parseRobotOutput(out))]

\* part_003 26-38: the result, given what the process returned
execute(cs, code, out) ==
    [exitCode |-> code, stdout |-> out, stderr |-> <<>>,
     robotOutput |-> IF Truthy(Get(cs.options, "robot"))
                         THEN Object(parseRobotOutput(out))
                     ELSE UndefinedValue]

\* part_004 55-60: discInfo of getStructuredDiscInfo
StructuredDiscInfo(res) ==
    [result |-> res,
     discInfo |-> IF Truthy(res.robotOutput)
                      THEN Object(parseDiscInfo(res.robotOutput.obj))
                  ELSE NullValue]

\* part_004 89-94: drives of getAvailableDrives
AvailableDrives(res) ==
    [result |-> res,
     drives |-> IF Truthy(res.robotOutput) THEN getDrives(res.robotOutput.obj)
                ELSE <<>>]

(***************************************************************************)
(* Inputs of SpecCommand: an options object with every general option      *)
(* absent or set to one of a few values, together with one group of        *)
(* command-specific options.                                               *)
(***************************************************************************)
Absent == [kind |-> "absent"]

\* The object of the properties that are not absent.
MakeObject(f) == [k \in {n \in DOMAIN f : f[n].kind # "absent"} |-> f[k]]

GeneralChoices ==
    [messages : {Absent, Str(<<"-", "s", "t", "d", "o", "u", "t">>)},
     progress : {Absent, Str(<<"-", "s", "a", "m", "e">>)},
     debug : {Absent, Bool(TRUE), Bool(FALSE), Str(<<"f">>)},
     directio : {Absent, Bool(FALSE)},
     noscan : {Absent, Bool(TRUE), Bool(FALSE)},
     cache : {Absent, Number(1), Number(256)},
     robot : {Absent, Bool(TRUE), Bool(FALSE)}]

SpecificObjects ==
    {<<>>,
     [minlength |-> Number(120)],
     [decrypt |-> Bool(TRUE)],
     [decrypt |-> Bool(FALSE)],
     [upnp |-> Bool(TRUE), bindip |-> Str(<<"1", ".", "2">>), bindport |-> Number(51000)],
     [upnp |-> Bool(FALSE)]}

OptionObjects ==
    {Spread(MakeObject(g), e) : g \in GeneralChoices, e \in SpecificObjects}

DiscIndexes == {0, 1}

TitleChoices == {Str(<<"a", "l", "l">>), Object(<<1, 2, 3>>)}

\* An output folder, and one that is named as a command is.
OutputFolders == {<<"/", "o">>, <<"m", "k", "v">>}

\* What the process may write: nothing, a drive list, a disc.
ProcessTexts ==
    {<<>>,
     <<"D", "R", "V", ":", "0", ",", "1", ",", "1", ",", "0", ",", "\"", "D", "\"", ",", "\"", "N", "\"">> \o <<NEWLINE>> \o <<"D", "R", "V", ":", "1", ",", "1", ",", "0", ",", "0", ",", "\"", "E", "\"", ",", "\"", "\"">>,
     <<"C", "I", "N", "F", "O", ":", "1", ",", "0", ",", "\"", "D", "V", "D", "\"">> \o <<NEWLINE>> \o <<"T", "I", "N", "F", "O", ":", "0", ",", "2", ",", "0", ",", "\"", "T", "\"">>}

ExitCodes == {0, 1}

InitCommand ==
    /\ pc = "ready"
    /\ fields = UnsetList
    /\ tag = Unset
    /\ input = Unset
    /\ values = UnsetList
    /\ line = Unset
    /\ record = Null
    /\ lines = UnsetList
    /\ output = Unset
    /\ robotOutput = <<>>
    /\ discInfo = NoDiscInfo
    /\ discInfoAdvanced = NoDiscInfo
    /\ result = Unset
    /\ heap = <<>>
    /\ firstInfo = NoRef
    /\ secondInfo = NoRef
    /\ options \in OptionObjects
    /\ spec = <<>>
    /\ args = <<>>
    /\ stdout = Unset
    /\ execResult = <<>>
    /\ structured = <<>>
    /\ invocations = <<>>

parserVars == <<fields, tag, input, values, line, record, lines, output, robotOutput,
                discInfo, discInfoAdvanced, result, heap, firstInfo, secondInfo>>

\* A builder returned cs.
Built(cs) ==
    /\ pc = "ready"
    /\ spec' = cs
    /\ pc' = "built"
    /\ UNCHANGED <<parserVars, options, args, stdout, execResult, structured, invocations>>

CallBuildInfoCommand == \E discIndex \in DiscIndexes : Built(buildInfoCommand(discIndex, options))

CallBuildListDrivesCommand == Built(buildListDrivesCommand(options))

CallBuildMkvCommand ==
    \E discIndex \in DiscIndexes, titles \in TitleChoices, outputFolder \in OutputFolders :
        Built(buildMkvCommand(discIndex, titles, outputFolder, options))

CallBuildBackupCommand ==
    \E discIndex \in DiscIndexes, outputFolder \in OutputFolders :
        Built(buildBackupCommand(discIndex, outputFolder, options))

CallBuildStreamCommand == Built(buildStreamCommand(options))

\* execute(spec): the arguments are built, the process runs, the result is
\* made of what it returned.
CallExecute ==
    /\ pc = "built"
    /\ args' = buildCommand(spec)
    /\ \E code \in ExitCodes, out \in ProcessTexts :
           /\ stdout' = out
           /\ execResult' = execute(spec, code, out)
    /\ pc' = "executed"
    /\ UNCHANGED <<parserVars, options, spec, structured, invocations>>

\* The spec is the one of buildListDrivesCommand.
IsListDrives == spec.command = <<"i", "n", "f", "o">> /\ spec.args = <<<<"d", "i", "s", "c", ":", "9", "9", "9", "9">>>>

\* The spec is the one of buildInfoCommand.
IsInfo == spec.command = <<"i", "n", "f", "o">> /\ ~IsListDrives

\* getStructuredDiscInfo, after getDiscInfo has returned
ReturnStructuredDiscInfo ==
    /\ pc = "executed"
    /\ IsInfo
    /\ structured' = StructuredDiscInfo(execResult)
    /\ pc' = "returned"
    /\ UNCHANGED <<parserVars, options, spec, args, stdout, execResult, invocations>>

\* getAvailableDrives, after listDrives has returned
ReturnAvailableDrives ==
    /\ pc = "executed"
    /\ IsListDrives
    /\ structured' = AvailableDrives(execResult)
    /\ pc' = "returned"
    /\ UNCHANGED <<parserVars, options, spec, args, stdout, execResult, invocations>>

NextCommand ==
    \/ CallBuildInfoCommand
    \/ CallBuildListDrivesCommand
    \/ CallBuildMkvCommand
    \/ CallBuildBackupCommand
    \/ CallBuildStreamCommand
    \/ CallExecute
    \/ ReturnStructuredDiscInfo
    \/ ReturnAvailableDrives

SpecCommand == InitCommand /\ [][NextCommand]_vars

(***************************************************************************)
(* SpecInterleaved: two parseDiscInfo invocations on their own record      *)
(* sequences, one loop iteration at a time, in any order.  Each invocation *)
(* has its own locals (position in its sequence, discAttributes,           *)
(* titlesMap); the heap is the one of the process.                         *)
(***************************************************************************)
InterleavedPool ==
    {Info(CINFO, 1, 0, <<"A">>), Info(CINFO, 1, 0, <<"B">>),
     Info(TINFO, 0, 2, <<"A">>), Info(TINFO, 0, 2, <<"B">>)}

InterleavedSeqs == UNION {[1..n -> InterleavedPool] : n \in 0..MaxInterleaved}

\* An invocation that has not started.
Invocation(items) ==
    [pc |-> "ready", items |-> items, next |-> 1, attributes |-> 0,
     titlesMap |-> <<>>, ref |-> NoRef]

InitInterleaved ==
    /\ pc = "interleaved"
    /\ fields = UnsetList
    /\ tag = Unset
    /\ input = Unset
    /\ values = UnsetList
    /\ line = Unset
    /\ record = Null
    /\ lines = UnsetList
    /\ output = Unset
    /\ robotOutput = <<>>
    /\ discInfo = NoDiscInfo
    /\ discInfoAdvanced = NoDiscInfo
    /\ result = Unset
    /\ heap = <<>>
    /\ firstInfo = NoRef
    /\ secondInfo = NoRef
    /\ options = <<>>
    /\ spec = <<>>
    /\ args = <<>>
    /\ stdout = Unset
    /\ execResult = <<>>
    /\ structured = <<>>
    /\ invocations \in {<<Invocation(a), Invocation(b)>> : a, b \in InterleavedSeqs}

interleavedFrame ==
    <<pc, fields, tag, input, values, line, record, lines, output, robotOutput,
      discInfo, discInfoAdvanced, result, firstInfo, secondInfo,
      options, spec, args, stdout, execResult, structured>>

\* lines 196-197: the invocation creates its collections
BeginInvocation(i) ==
    /\ invocations[i].pc = "ready"
    /\ LET discAttributes == NewMap(heap)
       IN /\ heap' = discAttributes.heap
          /\ invocations' = [invocations EXCEPT ![i].pc = "looping",
                                                ![i].attributes = discAttributes.addr]
    /\ UNCHANGED interleavedFrame

\* lines 199-223: one iteration of the loop
StepInvocation(i) ==
    /\ invocations[i].pc = "looping"
    /\ invocations[i].next <= Len(invocations[i].items)
    /\ LET st == HeapDiscStep([heap |-> heap,
                               attributes |-> invocations[i].attributes,
                               titlesMap |-> invocations[i].titlesMap],
                              invocations[i].items[invocations[i].next])
       IN /\ heap' = st.heap
          /\ invocations' = [invocations EXCEPT ![i].titlesMap = st.titlesMap,
                                                ![i].next = @ + 1]
    /\ UNCHANGED interleavedFrame

\* lines 225-231: the loop is over, the invocation returns
ReturnInvocation(i) ==
    /\ invocations[i].pc = "looping"
    /\ invocations[i].next > Len(invocations[i].items)
    /\ LET titles == NewArray(heap, invocations[i].titlesMap)
       IN /\ heap' = titles.heap
          /\ invocations' = [invocations EXCEPT
                                ![i].pc = "done",
                                ![i].ref = [attributes |-> invocations[i].attributes,
                                            titles |-> titles.addr]]
    /\ UNCHANGED interleavedFrame

NextInterleaved ==
    \E i \in {1, 2} : BeginInvocation(i) \/ StepInvocation(i) \/ ReturnInvocation(i)

SpecInterleaved == InitInterleaved /\ [][NextInterleaved]_vars

(***************************************************************************)
(* Claims about parseRobotValues, checked under SpecValues.                *)
(***************************************************************************)

\* C8 (as stated): for every sequence of fields, of any length and with empty
\* strings allowed, whose fields hold no comma, double quote or backslash,
\* parseRobotValues of the comma-joined fields returns the original sequence.
C8_RoundTripAnySequence ==
    (pc = "done" /\ fields # UnsetList) => values = fields

\* C8 (amended): the round trip holds for every such sequence except the
\* one-element sequence holding only the empty string, which joins to the
\* empty payload and comes back as the empty sequence.
C8_RoundTrip ==
    (pc = "done" /\ fields # UnsetList) =>
        IF fields = << <<>> >> THEN values = <<>> ELSE values = fields

\* C8 witness: a three-field sequence with an empty field in the middle and
\* an empty last field has made the round trip.
C8_Witness ==
    /\ pc = "done"
    /\ fields # UnsetList
    /\ Len(fields) = 3
    /\ fields[1] # <<>> /\ fields[2] = <<>> /\ fields[3] = <<>>
    /\ values = fields

\* C9 (as stated): the empty payload gives zero fields, and the payload made
\* of one empty quoted string (two double quotes) gives exactly one field,
\* the empty string.
C9_EmptyQuotedGivesOneField ==
    pc = "done" =>
        /\ (input = <<>> => values = <<>>)
        /\ (input = <<QUOTE, QUOTE>> => values = << <<>> >>)

\* C9 (amended): the empty payload gives zero fields and so does the payload
\* made of one empty quoted string; an empty quoted string is emitted as a
\* field once an unquoted comma has produced a prior field.
C9_EmptyQuotedGivesNoField ==
    pc = "done" =>
        /\ (input = <<>> => values = <<>>)
        /\ (input = <<QUOTE, QUOTE>> => values = <<>>)
        /\ (input = <<QUOTE, QUOTE, COMMA, QUOTE, QUOTE>> => values = <<<<>>, <<>>>>)

\* C9 witness: the payload of two double quotes has been tokenized to no field.
C9_Witness ==
    pc = "done" /\ input = <<QUOTE, QUOTE>> /\ fields = UnsetList /\ values = <<>>

\* The scanner's state after the first k characters of str.
ScanPrefix(str, k) == Scan(SubSeq(str, 1, k), 1, ScanInit)

\* C10: a backslash met while no escape is pending is never emitted; the
\* character after it, whatever it is, is appended to the current field and
\* nothing else of the scanner's state changes (quoting is not toggled, no
\* field is split, the character is not translated), the escape is over
\* after that one character, inside and outside quotes alike; the result of
\* the call is the one the scan reaches from that state. A backslash that
\* ends the payload contributes nothing.
C10_EscapeIsLiteral ==
    pc = "done" =>
        \A i \in 1..Len(input) :
            LET before == ScanPrefix(input, i - 1) IN
            (input[i] = BACKSLASH /\ ~before.escaped) =>
                IF i < Len(input)
                THEN LET after == [before EXCEPT !.current = Append(@, input[i + 1])]
                     IN /\ ScanPrefix(input, i + 1) = after
                        /\ values = Finish(Scan(input, i + 2, after))
                ELSE values = Finish(before)

\* C10 witness: an escaped comma outside quotes and an escaped double quote
\* inside quotes both ended up in the only field of the result.
C10_Witness ==
    /\ pc = "done"
    /\ input = <<BACKSLASH, COMMA, QUOTE, BACKSLASH, QUOTE>>
    /\ values = << <<COMMA, QUOTE>> >>

(***************************************************************************)
(* Claims about parseRobotLine, checked under SpecLine.  The formulas read *)
(* the tag and the raw fields the line was built from, not the decoder's   *)
(* own intermediate values.                                                *)
(***************************************************************************)
DecimalDigits == {"0", "1", "2", "3", "4", "5", "6", "7", "8", "9"}

Unsigned(str) == IF str # <<>> /\ Head(str) \in {"+", "-"} THEN Tail(str) ELSE str

\* str is a base-10 integer literal: an optional sign and one or more digits.
IsDecimalLiteral(str) ==
    /\ Unsigned(str) # <<>>
    /\ \A i \in 1..Len(Unsigned(str)) : Unsigned(str)[i] \in DecimalDigits

DecimalDigit(char) == CHOOSE d \in 0..9 : Digits[d + 1] = char

RECURSIVE Magnitude(_)
Magnitude(str) ==
    IF str = <<>> THEN 0
    ELSE 10 * Magnitude(SubSeq(str, 1, Len(str) - 1)) + DecimalDigit(str[Len(str)])

\* The integer a base-10 literal denotes.
DecimalValue(str) ==
    IF str # <<>> /\ Head(str) = "-" THEN 0 - Magnitude(Unsigned(str))
    ELSE Magnitude(Unsigned(str))

IsQuoted(raw) == Len(raw) >= 2 /\ raw[1] = QUOTE /\ raw[Len(raw)] = QUOTE

\* The text a raw field of the inputs denotes: what is between its quotes.
FieldText(raw) == IF IsQuoted(raw) THEN SubSeq(raw, 2, Len(raw) - 1) ELSE raw

IsStructured == tag # Unset /\ fields # UnsetList

InfoTags == {CINFO, TINFO, SINFO}

C3_FourFieldValueIsText ==
    (/\ pc = "done" /\ IsStructured /\ tag \in {TINFO, SINFO}
     /\ Len(fields) = 4
     /\ \A k \in 1..3 : IsDecimalLiteral(fields[k])
     /\ IsQuoted(fields[4])) =>
        record = [type |-> tag,
                  id |-> Num(DecimalValue(fields[1])),
                  code |-> Num(DecimalValue(fields[2])),
                  value |-> FieldText(fields[4])]

\* C3 (the claim's own example): TINFO:0,16,0,"00001.m2ts" decodes with value
\* "00001.m2ts".
C3_TestExample ==
    (pc = "done" /\ line = <<"T", "I", "N", "F", "O", COLON, "0", COMMA, "1", "6", COMMA, "0", COMMA, QUOTE, "0", "0", "0", "0", "1", ".", "m", "2", "t", "s", QUOTE>>) =>
        record = [type |-> TINFO, id |-> Num(0), code |-> Num(16),
                  value |-> <<"0", "0", "0", "0", "1", ".", "m", "2", "t", "s">>]

\* The positions (0-based) of a tag's integer fields.
IntPositions(t) ==
    IF t = MSG THEN {0, 1, 2}
    ELSE IF t \in {PRGC, PRGT} THEN {0, 1}
    ELSE IF t = PRGV THEN {0, 1, 2}
    ELSE IF t = DRV THEN {0, 3}
    ELSE IF t = TCOUT THEN {0}
    ELSE {0, 1}

\* C4 (the claim): when a field in an integer position is no base-10 integer
\* literal the line is rejected: no record carries a partial or garbage
\* number.
C4_NonDecimalRejected ==
    (/\ pc = "done" /\ IsStructured
     /\ \E k \in IntPositions(tag) :
            k + 1 <= Len(fields) /\ ~IsDecimalLiteral(fields[k + 1])) =>
        record = Null

\* The least number of fields a tag's line must have.
MinFields(t) ==
    IF t = MSG THEN 5
    ELSE IF t = DRV THEN 6
    ELSE IF t = TCOUT THEN 1
    ELSE 3

\* The number of fields the payload of the line tokenizes to.
TokenCount == Len(parseRobotValues(Join(fields)))

NumberFields == {"code", "flags", "count", "id", "current", "total", "max", "index"}
StringFields == {"message", "format", "name", "driveName", "discName", "value"}

IsString(x) == \A i \in 1..Len(x) : x[i] # "undefined"

\* r is one of the RobotOutput variants of src/lib/types.ts, every number an
\* integer and every string a string.
IsTypedRecord(r) ==
    /\ r.type \in Tags
    /\ DOMAIN r =
         IF r.type = MSG
             THEN {"type", "code", "flags", "count", "message", "format", "params"}
         ELSE IF r.type \in {PRGC, PRGT} THEN {"type", "code", "id", "name"}
         ELSE IF r.type = PRGV THEN {"type", "current", "total", "max"}
         ELSE IF r.type = DRV
             THEN {"type", "index", "visible", "enabled", "flags", "driveName", "discName"}
         ELSE IF r.type = TCOUT THEN {"type", "count"}
         ELSE {"type", "id", "code", "value"}
    /\ \A f \in DOMAIN r \cap NumberFields : ~isNaN(r[f])
    /\ \A f \in DOMAIN r \cap StringFields : IsString(r[f])
    /\ r.type = MSG => \A i \in 1..Len(r.params) : IsString(r.params[i])
    /\ r.type = DRV => r.visible \in BOOLEAN /\ r.enabled \in BOOLEAN

\* C5: decoding is total: every call returns null or a typed record (the
\* model has no other outcome: nothing the try block evaluates can throw).
C5_Total ==
    pc = "done" => (record = Null \/ IsTypedRecord(record))

\* C5 witness: malformed lines were answered with null (a field that is no
\* number at all) and a well-formed one with a typed record.
C5_Witness ==
    /\ pc = "done"
    /\ tag = TCOUT
    /\ fields = <<<<QUOTE, "a", QUOTE>>>>
    /\ record = Null

\* C6: a line of a recognized tag whose payload tokenizes to fewer fields
\* than the tag's minimum is rejected; TCOUT: is rejected and TCOUT:n, n a
\* decimal integer, gives a TitleCount record with count n.
C6_MinimumFields ==
    /\ (pc = "done" /\ IsStructured /\ TokenCount < MinFields(tag)) => record = Null
    /\ (pc = "done" /\ line = <<"T", "C", "O", "U", "T", COLON>>) => record = Null
    /\ (pc = "done" /\ IsStructured /\ tag = TCOUT /\ Len(fields) = 1
        /\ IsDecimalLiteral(fields[1])) =>
           record = [type |-> TCOUT, count |-> Num(DecimalValue(fields[1]))]

\* C6 witness: a DRV line of five fields, one short of the minimum, was
\* rejected, all its integer fields being integers.
C6_Witness ==
    /\ pc = "done"
    /\ tag = DRV
    /\ fields = [k \in 1..5 |-> <<"1">>]
    /\ record = Null

\* The text before the first colon of str.
RECURSIVE BeforeColon(_)
BeforeColon(str) ==
    IF str = <<>> \/ Head(str) = COLON THEN <<>>
    ELSE <<Head(str)>> \o BeforeColon(Tail(str))

HasColon(str) == \E i \in 1..Len(str) : str[i] = COLON

\* str without its leading and trailing white space.
Stripped(str) ==
    IF \A i \in 1..Len(str) : str[i] \in WhiteSpace THEN <<>>
    ELSE LET first == CHOOSE i \in 1..Len(str) :
                          str[i] \notin WhiteSpace /\ \A j \in 1..(i - 1) : str[j] \in WhiteSpace
             last == CHOOSE i \in 1..Len(str) :
                          str[i] \notin WhiteSpace /\ \A j \in (i + 1)..Len(str) : str[j] \in WhiteSpace
         IN SubSeq(str, first, last)

\* C7: a line that is empty or white space only, a line with no colon, and a
\* line whose text before the first colon (of the trimmed line) is none of
\* the nine tags is rejected; an accepted line's record has that text as its
\* type.
C7_TagDecides ==
    pc = "done" =>
        /\ (\/ Stripped(line) = <<>>
            \/ ~HasColon(line)
            \/ BeforeColon(Stripped(line)) \notin Tags) => record = Null
        /\ record # Null => record.type = BeforeColon(Stripped(line))

\* C7 witness: a line of an unknown tag that has the shape of an information
\* line was rejected.
C7_Witness ==
    /\ pc = "done"
    /\ line = <<"X", "I", "N", "F", "O", COLON, "1", COMMA, "1", COMMA, QUOTE, "a", QUOTE>>
    /\ record = Null

(***************************************************************************)
(* Claims about parseRobotOutput followed by parseDiscInfo, checked under  *)
(* SpecDisc.                                                               *)
(***************************************************************************)
IsPrefix(p, str) == Len(p) <= Len(str) /\ SubSeq(str, 1, Len(p)) = p

\* The start TINFO:t,a, of the lines that write attribute a of title t.
TinfoKey(d) == TINFO \o <<COLON>> \o d.t \o <<COMMA>> \o d.a \o <<COMMA>>

\* lines[i] is the last line of the text that writes its title's attribute.
IsLastWrite(i, d) ==
    /\ lines[i] = TinfoLine(d)
    /\ \A j \in (i + 1)..Len(lines) : ~IsPrefix(TinfoKey(d), lines[j])

\* C1 (the claim): end to end, a line TINFO:t,a,m,"v" makes the title with id
\* t map attribute a to the text v, the quoted fourth field (title 0 gets
\* 2 -> "Title 1" and 16 -> "00001.m2ts"), not to the third field m.
C1_TitleAttributeIsText ==
    pc = "aggregated" =>
        \A i \in 1..Len(lines) : \A d \in TinfoShapes :
            IsLastWrite(i, d) =>
                \E k \in 1..Len(discInfo.titles) :
                    LET title == discInfo.titles[k] IN
                    /\ title.id = Num(DecimalValue(d.t))
                    /\ Num(DecimalValue(d.a)) \in DOMAIN title.attributes
                    /\ title.attributes[Num(DecimalValue(d.a))] = d.v

(***************************************************************************)
(* Further claims about parseRobotValues, checked under SpecValues.        *)
(***************************************************************************)

\* The positions of the payload that hold a double quote met while an escape
\* is pending (the only double quotes that are data).
EscapedQuotes ==
    {i \in 1..Len(input) : input[i] = QUOTE /\ ScanPrefix(input, i - 1).escaped}

\* The double quotes in the fields of the result.
QuotesInValues ==
    {p \in (1..Len(values)) \X (1..Len(input)) :
        p[2] <= Len(values[p[1]]) /\ values[p[1]][p[2]] = QUOTE}

\* C11: every unescaped double quote toggles the inside-quotes flag and
\* changes nothing else, so it is in no field of the result; a comma ends the
\* current field exactly when it is unescaped and the flag is off, and an
\* unescaped comma inside quotes is appended to the field.
C11_QuotesAndCommas ==
    pc = "done" =>
        /\ \A i \in 1..Len(input) :
               LET before == ScanPrefix(input, i - 1)
                   after == ScanPrefix(input, i)
                   expected ==
                       IF input[i] = QUOTE THEN [before EXCEPT !.inQuotes = ~@]
                       ELSE IF before.inQuotes
                           THEN [before EXCEPT !.current = Append(@, COMMA)]
                       ELSE [before EXCEPT !.values = Append(@, before.current),
                                           !.current = <<>>]
               IN /\ (~before.escaped /\ input[i] \in {QUOTE, COMMA}) =>
                         /\ after = expected
                         /\ values = Finish(Scan(input, i + 1, expected))
                  /\ Len(after.values) # Len(before.values) <=>
                         (input[i] = COMMA /\ ~before.escaped /\ ~before.inQuotes)
        /\ Cardinality(QuotesInValues) = Cardinality(EscapedQuotes)

\* C11 witness: a comma between quotes stayed in the only field and the
\* quotes are gone.
C11_Witness ==
    /\ pc = "done"
    /\ input = <<QUOTE, "a", COMMA, "n", QUOTE>>
    /\ values = << <<"a", COMMA, "n">> >>

\* C12: a payload that ends inside a quote or on a backslash is tokenized
\* without an error: the call returns a list of strings whose last field is
\* the buffer, after the fields the commas produced (when the buffer is empty
\* and no comma produced a field the list is empty, as for any payload).
C12_UnterminatedIsEmitted ==
    pc = "done" =>
        LET st == ScanPrefix(input, Len(input))
        IN (st.inQuotes \/ st.escaped) =>
               /\ \A k \in 1..Len(values) :
                      \A j \in 1..Len(values[k]) : values[k][j] \in Alphabet
               /\ (st.current # <<>> \/ st.values # <<>>) =>
                      values = Append(st.values, st.current)
               /\ (st.current = <<>> /\ st.values = <<>>) => values = <<>>

\* C12 witness: a payload that ends inside a quote and on a backslash gave
\* the field before the comma and the buffer as the last field.
C12_Witness ==
    /\ pc = "done"
    /\ input = <<"a", COMMA, QUOTE, "n", BACKSLASH>>
    /\ values = <<<<"a">>, <<"n">>>>

(***************************************************************************)
(* Claims about parseDiscInfo, parseDiscInfoAdvanced and getTitleCount,    *)
(* checked under SpecRecords.  The formulas read the record sequence.      *)
(***************************************************************************)

\* The positions of the records of a type.
Positions(type) == {i \in 1..Len(robotOutput) : robotOutput[i].type = type}

Latest(S) == CHOOSE i \in S : \A j \in S : j <= i
Earliest(S) == CHOOSE i \in S : \A j \in S : i <= j

\* C13: the disc attribute collection has exactly the ids of the CINFO
\* records as keys (the first integer field, not the code), and each key maps
\* to the value of the last CINFO record of that id.
C13_DiscAttributesById ==
    pc = "aggregated" =>
        /\ DOMAIN discInfo.attributes = {robotOutput[i].id : i \in Positions(CINFO)}
        /\ \A key \in DOMAIN discInfo.attributes :
               discInfo.attributes[key] =
                   robotOutput[Latest({i \in Positions(CINFO) :
                                           robotOutput[i].id = key})].value

\* C13 witness: two CINFO records of id 1 and one of id 32 and code 1 gave
\* key 1 the later value and key 32 its own.
C13_Witness ==
    /\ pc = "aggregated"
    /\ robotOutput = <<Info(CINFO, 1, 0, <<"A">>), Info(CINFO, 32, 1, <<"A">>),
                       Info(CINFO, 1, 0, <<"B">>)>>
    /\ discInfo.attributes = (Num(1) :> <<"B">>) @@ (Num(32) :> <<"A">>)

\* The positions of the TINFO records of title id.
TitleWrites(id) == {i \in Positions(TINFO) : robotOutput[i].id = id}

\* C14: every TINFO record's id has a title; the attribute collection of the
\* title of id t has exactly the codes of the TINFO records of id t as keys,
\* each mapped to the value of the last TINFO record of id t and that code,
\* so a record changes no other title's collection.
C14_TitleAttributesByCode ==
    pc = "aggregated" =>
        /\ \A i \in Positions(TINFO) :
               \E k \in 1..Len(discInfo.titles) :
                   discInfo.titles[k].id = robotOutput[i].id
        /\ \A k \in 1..Len(discInfo.titles) :
               LET title == discInfo.titles[k]
                   writes == TitleWrites(title.id)
               IN /\ DOMAIN title.attributes = {robotOutput[i].code : i \in writes}
                  /\ \A c \in DOMAIN title.attributes :
                         title.attributes[c] =
                             robotOutput[Latest({i \in writes :
                                                     robotOutput[i].code = c})].value

\* C14 witness: title 0 was written twice under code 2 with title 1 written
\* in between; title 0 holds the later value and title 1 its own.
C14_Witness ==
    /\ pc = "aggregated"
    /\ robotOutput = <<Info(TINFO, 0, 2, <<"B">>), Info(TINFO, 1, 2, <<"B">>),
                       Info(TINFO, 0, 2, <<"A">>)>>
    /\ discInfo.titles =
           <<[id |-> Num(0), attributes |-> (Num(2) :> <<"A">>), streams |-> <<>>],
             [id |-> Num(1), attributes |-> (Num(2) :> <<"B">>), streams |-> <<>>]>>

\* C15: the titles are listed in the order in which their ids first appear
\* among the TINFO records, whatever the numeric order of the ids.
C15_TitlesInFirstSeenOrder ==
    pc = "aggregated" =>
        /\ {discInfo.titles[k].id : k \in 1..Len(discInfo.titles)} =
               {robotOutput[i].id : i \in Positions(TINFO)}
        /\ \A k, l \in 1..Len(discInfo.titles) :
               k < l => Earliest(TitleWrites(discInfo.titles[k].id))
                            < Earliest(TitleWrites(discInfo.titles[l].id))

\* C15 witness: ids 5, 0, 1 appeared in that order and the titles are listed
\* 5, 0, 1.
C15_Witness ==
    /\ pc = "aggregated"
    /\ Len(robotOutput) = 3
    /\ \A i \in 1..3 : robotOutput[i].type = TINFO
    /\ <<robotOutput[1].id, robotOutput[2].id, robotOutput[3].id>> = <<Num(5), Num(0), Num(1)>>
    /\ Len(discInfo.titles) = 3
    /\ <<discInfo.titles[1].id, discInfo.titles[2].id, discInfo.titles[3].id>>
           = <<Num(5), Num(0), Num(1)>>

IsDiscOrTitle(item) == item.type \in {CINFO, TINFO}

\* C16: SINFO, MSG, PRGC, PRGT, PRGV, DRV and TCOUT records leave the
\* aggregation as it is: the result is the one of the CINFO and TINFO records
\* alone, and the result of every prefix that ends in such a record is the
\* result of the prefix before it.
C16_OtherRecordsIgnored ==
    pc = "aggregated" =>
        /\ discInfo = parseDiscInfo(SelectSeq(robotOutput, IsDiscOrTitle))
        /\ \A i \in 1..Len(robotOutput) :
               ~IsDiscOrTitle(robotOutput[i]) =>
                   parseDiscInfo(SubSeq(robotOutput, 1, i))
                       = parseDiscInfo(SubSeq(robotOutput, 1, i - 1))

\* C16 witness: a SINFO record, a TINFO record and a MSG record gave the one
\* title of the TINFO record and nothing else.
C16_Witness ==
    /\ pc = "aggregated"
    /\ Len(robotOutput) = 3
    /\ robotOutput[1].type = SINFO
    /\ robotOutput[2] = Info(TINFO, 0, 2, <<"A">>)
    /\ robotOutput[3].type = MSG
    /\ discInfo = [attributes |-> <<>>,
                   titles |-> <<[id |-> Num(0), attributes |-> (Num(2) :> <<"A">>),
                                 streams |-> <<>>]>>]

HasStreams(info) == \E k \in 1..Len(info.titles) : info.titles[k].streams # <<>>

\* C17 (the claim): when the record sequence holds a SINFO record, the
\* DiscInfo that parseDiscInfo returns, and the one that
\* parseDiscInfoAdvanced returns, holds it in the streams of some title.
C17_StreamsHoldSinfo ==
    /\ (pc = "aggregated" /\ Positions(SINFO) # {}) => HasStreams(discInfo)
    /\ (pc = "advanced" /\ Positions(SINFO) # {}) => HasStreams(discInfoAdvanced)

\* C19 (the claim): getTitleCount returns the count of the last TCOUT record,
\* and null when there is none.
C19_LastTitleCount ==
    pc = "counted" =>
        IF Positions(TCOUT) = {} THEN result = Null
        ELSE result = robotOutput[Latest(Positions(TCOUT))].count

(***************************************************************************)
(* Claim about parseRobotOutput, checked under SpecDisc.                   *)
(***************************************************************************)

\* The positions of the lines that parseRobotLine does not reject.
Accepted == {i \in 1..Len(lines) : parseRobotLine(lines[i]) # Null}

\* The position of the k-th accepted line.
NthAccepted(k) ==
    CHOOSE i \in Accepted : Cardinality({j \in Accepted : j <= i}) = k

\* C20: parseRobotOutput returns as many records as there are lines that
\* parseRobotLine does not reject, and its k-th record is the decoding of the
\* k-th such line: rejected lines are dropped and change nothing else.
C20_RejectedLinesDropped ==
    pc = "parsed" =>
        /\ Len(robotOutput) = Cardinality(Accepted)
        /\ \A k \in 1..Len(robotOutput) :
               robotOutput[k] = parseRobotLine(lines[NthAccepted(k)])

\* C20 witness: a rejected line between a TCOUT line and a DRV line was
\* dropped and the two records are returned in line order.
C20_Witness ==
    /\ pc = "parsed"
    /\ Len(lines) = 3
    /\ parseRobotLine(lines[1]) # Null
    /\ lines[2] = <<"I", "N", "V", "A", "L", "I", "D", " ", "L", "I", "N", "E">>
    /\ parseRobotLine(lines[2]) = Null
    /\ Len(robotOutput) = 2
    /\ robotOutput[1] = [type |-> TCOUT, count |-> Num(2)]
    /\ robotOutput[2].type = DRV

(***************************************************************************)
(* Claim about two parseDiscInfo calls, checked under SpecTwice.           *)
(***************************************************************************)

\* The value a returned object stands for, read through the heap.
Deref(ref) ==
    [attributes |-> heap[ref.attributes].entries,
     titles |-> [k \in 1..Len(heap[ref.titles].items) |->
                    LET title == heap[heap[ref.titles].items[k]]
                    IN [id |-> title.id,
                        attributes |-> heap[title.attributes].entries,
                        streams |-> heap[title.streams].items]]]

\* The addresses of the objects a returned object leads to.
Reach(ref) ==
    LET titleAddrs == {heap[ref.titles].items[k] : k \in 1..Len(heap[ref.titles].items)}
    IN {ref.attributes, ref.titles} \cup titleAddrs
       \cup {heap[a].attributes : a \in titleAddrs}
       \cup {heap[a].streams : a \in titleAddrs}

\* C18: after parseDiscInfo has been called twice on one record sequence,
\* the two results stand for the same value, and no Map, Array or title
\* object of the one is an object of the other.
C18_EqualAndUnshared ==
    pc = "twice" =>
        /\ Deref(firstInfo) = Deref(secondInfo)
        /\ Reach(firstInfo) \cap Reach(secondInfo) = {}

\* C18 witness: two calls on a sequence with a disc attribute and two titles
\* returned two different objects for the same non-empty value.
C18_Witness ==
    /\ pc = "twice"
    /\ robotOutput = <<Info(CINFO, 1, 0, <<"A">>), Info(TINFO, 5, 2, <<"A">>),
                       Info(TINFO, 0, 2, <<"B">>)>>
    /\ firstInfo # secondInfo
    /\ Deref(secondInfo) =
           [attributes |-> (Num(1) :> <<"A">>),
            titles |-> <<[id |-> Num(5), attributes |-> (Num(2) :> <<"A">>),
                          streams |-> <<>>],
                         [id |-> Num(0), attributes |-> (Num(2) :> <<"B">>),
                          streams |-> <<>>]>>]
    /\ Deref(firstInfo) = Deref(secondInfo)

(***************************************************************************)
(* Further claims about parseDiscInfo and the accessors, checked under     *)
(* SpecRecords.                                                            *)
(***************************************************************************)

\* C21 (the claim): the object parseDiscInfo returns, and each of its titles,
\* has for every attribute it holds a property of the AttributeId's name
\* whose value is the attribute's value.
C21_ConvenienceProperties ==
    pc = "aggregated" =>
        /\ \A key \in DOMAIN discInfo.attributes :
               GetProperty(discInfo, AttributeName(key)) = discInfo.attributes[key]
        /\ \A k \in 1..Len(discInfo.titles) :
               \A key \in DOMAIN discInfo.titles[k].attributes :
                   GetProperty(discInfo.titles[k], AttributeName(key))
                       = discInfo.titles[k].attributes[key]

\* The position of the k-th record of a type.
NthOf(type, k) ==
    CHOOSE i \in Positions(type) : Cardinality({j \in Positions(type) : j <= i}) = k

\* C22: getMessages returns one text per MSG record, the k-th being the
\* message of the k-th MSG record; getDrives returns the DRV records, the
\* k-th being the k-th DRV record; no other record contributes.
C22_AccessorsKeepOrder ==
    /\ pc = "messages" =>
           /\ Len(result) = Cardinality(Positions(MSG))
           /\ \A k \in 1..Len(result) : result[k] = robotOutput[NthOf(MSG, k)].message
    /\ pc = "drives" =>
           /\ Len(result) = Cardinality(Positions(DRV))
           /\ \A k \in 1..Len(result) : result[k] = robotOutput[NthOf(DRV, k)]

\* C22 witness: of the records MSG "S", TCOUT, MSG "M" the two messages were
\* returned in that order.
C22_Witness ==
    /\ pc = "messages"
    /\ Len(robotOutput) = 3
    /\ robotOutput[1].type = MSG /\ robotOutput[1].message = <<"S">>
    /\ robotOutput[2].type = TCOUT
    /\ robotOutput[3].type = MSG /\ robotOutput[3].message = <<"M">>
    /\ result = <<<<"S">>, <<"M">>>>

(***************************************************************************)
(* Further claims about parseRobotLine, checked under SpecLine.            *)
(***************************************************************************)

\* The MSG line of the test "MSG with parameters", its texts shortened.
MsgWithParams ==
    <<"M", "S", "G", COLON, "3", "3", "0", "7", COMMA, "0", COMMA, "2", COMMA,
      QUOTE, "a", QUOTE, COMMA, QUOTE, "b", QUOTE, COMMA,
      QUOTE, "f", ".", "m", "k", "v", QUOTE, COMMA, QUOTE, "0", QUOTE>>

\* C23: an accepted MSG line has at least five fields; its message is
\* field[3], its format field[4] and its params the fields from position 5
\* on, in order (none when there are five fields).
C23_MsgFields ==
    /\ (pc = "done" /\ IsStructured /\ tag = MSG /\ record # Null) =>
           /\ Len(fields) >= 5
           /\ record.message = FieldText(fields[4])
           /\ record.format = FieldText(fields[5])
           /\ record.params = [k \in 1..(Len(fields) - 5) |-> FieldText(fields[5 + k])]
    /\ (pc = "done" /\ line = MsgWithParams) =>
           /\ record # Null
           /\ record.message = <<"a">>
           /\ record.format = <<"b">>
           /\ record.params = <<<<"f", ".", "m", "k", "v">>, <<"0">>>>

\* C23 witness: a six-field MSG line gave one param, the text of its sixth
\* field, which held a comma in quotes.
C23_Witness ==
    /\ pc = "done"
    /\ tag = MSG
    /\ fields = <<<<"1">>, <<"1">>, <<"1">>, <<QUOTE, "a", QUOTE>>, <<"1">>,
                  <<QUOTE, "a", COMMA, "b", QUOTE>>>>
    /\ record.message = <<"a">>
    /\ record.format = <<"1">>
    /\ record.params = <<<<"a", COMMA, "b">>>>

\* C24: an accepted DRV line has visible true exactly when field[1] is the
\* text "1" and enabled true exactly when field[2] is the text "1"; a DRV
\* line of six fields or more whose field[0] and field[3] are decimal
\* integers is accepted whatever field[1] and field[2] hold.
C24_DrvFlags ==
    /\ (pc = "done" /\ IsStructured /\ tag = DRV /\ record # Null) =>
           /\ record.visible = (FieldText(fields[2]) = <<"1">>)
           /\ record.enabled = (FieldText(fields[3]) = <<"1">>)
    /\ (pc = "done" /\ IsStructured /\ tag = DRV /\ Len(fields) >= 6
        /\ IsDecimalLiteral(fields[1]) /\ IsDecimalLiteral(fields[4])) =>
           record # Null

\* C24 witness: a DRV line with 1e3 as field[1] and a quoted letter as
\* field[2] was accepted with visible and enabled both false.
C24_Witness ==
    /\ pc = "done"
    /\ tag = DRV
    /\ fields = <<<<"1">>, <<"1", "e", "3">>, <<QUOTE, "a", QUOTE>>, <<"1">>,
                  <<"1">>, <<"1">>>>
    /\ record # Null
    /\ record.visible = FALSE
    /\ record.enabled = FALSE

(***************************************************************************)
(* Claims that compare or bound the aggregations, checked under            *)
(* SpecRecords.                                                            *)
(***************************************************************************)

\* C29 (the claim): for every record sequence parseDiscInfoAdvanced returns
\* the disc attributes and the titles that parseDiscInfo returns.
C29_AdvancedAgrees ==
    pc = "advanced" =>
        /\ discInfoAdvanced.attributes = parseDiscInfo(robotOutput).attributes
        /\ discInfoAdvanced.titles = parseDiscInfo(robotOutput).titles

\* C30: the titles parseDiscInfo returns have pairwise different ids, are as
\* many as there are different ids among the TINFO records, whatever a TCOUT
\* record says, and each has at least one attribute.
C30_TitlesDistinctAndNonEmpty ==
    pc = "aggregated" =>
        /\ \A k, l \in 1..Len(discInfo.titles) :
               discInfo.titles[k].id = discInfo.titles[l].id => k = l
        /\ Len(discInfo.titles) =
               Cardinality({robotOutput[i].id : i \in Positions(TINFO)})
        /\ \A k \in 1..Len(discInfo.titles) :
               DOMAIN discInfo.titles[k].attributes # {}

\* C30 witness: a TCOUT record of count 7 and two TINFO records of title 0
\* gave one title, with both attributes.
C30_Witness ==
    /\ pc = "aggregated"
    /\ robotOutput = <<[type |-> TCOUT, count |-> Num(7)],
                       Info(TINFO, 0, 2, <<"A">>), Info(TINFO, 0, 16, <<"A">>)>>
    /\ Len(discInfo.titles) = 1
    /\ DOMAIN discInfo.titles[1].attributes = {Num(2), Num(16)}

(***************************************************************************)
(* Claims about the command builder, execute and the high-level API,       *)
(* checked under SpecCommand.                                              *)
(***************************************************************************)

HasBuilt == pc \in {"built", "executed", "returned"}
HasExecuted == pc \in {"executed", "returned"}

\* The number of arguments before the command-specific ones.
CommandPosition == Len(args) - Len(spec.args)

\* -r is among the arguments before the command name.
EmitsRobotFlag == \E i \in 1..(CommandPosition - 1) : args[i] = <<"-", "r">>

\* C25 (the claim): whatever options the caller passes, the spec of
\* buildInfoCommand and of buildListDrivesCommand has options.robot true
\* (and a cache setting, for buildListDrivesCommand), its command line holds
\* -r and the result of executing it holds parsed robot output.
C25_RobotAlwaysOn ==
    /\ (HasBuilt /\ spec.command = <<"i", "n", "f", "o">>) =>
           /\ Truthy(Get(spec.options, "robot"))
           /\ IsListDrives => "cache" \in DOMAIN spec.options
    /\ (HasExecuted /\ spec.command = <<"i", "n", "f", "o">>) =>
           /\ EmitsRobotFlag
           /\ execResult.robotOutput.kind = "object"

\* The text starts with the prefix.
StartsWith(text, prefix) ==
    Len(text) >= Len(prefix) /\ SubSeq(text, 1, Len(prefix)) = prefix

\* The text is one of the arguments of the general options.
IsGeneralArg(text) ==
    \/ text \in {<<"-", "r">>, <<"-", "-", "d", "e", "b", "u", "g">>, <<"-", "-", "n", "o", "s", "c", "a", "n">>}
    \/ \E prefix \in {<<"-", "-", "m", "e", "s", "s", "a", "g", "e", "s", "=">>, <<"-", "-", "p", "r", "o", "g", "r", "e", "s", "s", "=">>, <<"-", "-", "d", "e", "b", "u", "g", "=">>, <<"-", "-", "d", "i", "r", "e", "c", "t", "i", "o", "=">>, <<"-", "-", "c", "a", "c", "h", "e", "=">>} :
           StartsWith(text, prefix)

\* C26: the arguments execute hands over are the arguments of the general
\* options, then the command name, then the command-specific arguments in
\* the order the builder gave them; those of mkv end with disc:N, the titles
\* and the output folder, those of backup with disc:N and the output folder.
C26_GeneralThenCommandThenSpecific ==
    HasExecuted =>
        /\ CommandPosition >= 1
        /\ args[CommandPosition] = spec.command
        /\ \A i \in 1..(CommandPosition - 1) : IsGeneralArg(args[i])
        /\ SubSeq(args, CommandPosition + 1, Len(args)) = spec.args
        /\ spec.command = <<"m", "k", "v">> =>
               /\ Len(args) - 2 > CommandPosition
               /\ StartsWith(args[Len(args) - 2], <<"d", "i", "s", "c", ":">>)
        /\ spec.command = <<"b", "a", "c", "k", "u", "p">> =>
               /\ Len(args) - 1 > CommandPosition
               /\ StartsWith(args[Len(args) - 1], <<"d", "i", "s", "c", ":">>)

\* C26 witness: an mkv command with a cache size, robot mode and a minimum
\* length, written to a folder named mkv.
C26_Witness ==
    /\ pc = "executed"
    /\ args = <<<<"-", "-", "c", "a", "c", "h", "e", "=", "2", "5", "6">>, <<"-", "r">>, <<"m", "k", "v">>, <<"-", "-", "m", "i", "n", "l", "e", "n", "g", "t", "h", "=", "1", "2", "0">>, <<"d", "i", "s", "c", ":", "0">>, <<"1", ",", "2", ",", "3">>, <<"m", "k", "v">>>>

\* C27: execute attaches robotOutput, the parse of the standard output,
\* exactly when options.robot is truthy in the spec, which is exactly when -r
\* is among the general arguments; getStructuredDiscInfo returns a discInfo
\* other than null exactly when robotOutput is there, and getAvailableDrives
\* returns no drives when it is not.
C27_RobotOutputIffRobot ==
    /\ HasExecuted =>
           /\ execResult.robotOutput.kind = "object" <=> Truthy(Get(spec.options, "robot"))
           /\ Truthy(Get(spec.options, "robot")) <=> EmitsRobotFlag
           /\ execResult.robotOutput.kind # "object" => execResult.robotOutput.kind = "undefined"
           /\ execResult.robotOutput.kind = "object" =>
                  execResult.robotOutput.obj = parseRobotOutput(stdout)
    /\ (pc = "returned" /\ IsInfo) =>
           (structured.discInfo.kind # "null" <=> execResult.robotOutput.kind = "object")
    /\ (pc = "returned" /\ IsListDrives /\ execResult.robotOutput.kind # "object") =>
           structured.drives = <<>>

\* C27 witness: robot mode switched off by the caller: no -r, no robotOutput,
\* and getStructuredDiscInfo returned null although the process wrote a disc.
C27_Witness ==
    /\ pc = "returned"
    /\ IsInfo
    /\ options = [robot |-> Bool(FALSE)]
    /\ args = <<<<"i", "n", "f", "o">>, <<"d", "i", "s", "c", ":", "0">>>>
    /\ Len(stdout) > 0
    /\ execResult.robotOutput.kind = "undefined"
    /\ structured.discInfo.kind = "null"

(***************************************************************************)
(* Claim about interleaved aggregations, checked under SpecInterleaved.    *)
(***************************************************************************)

\* C28: however the steps of the two invocations are interleaved, an
\* invocation that has returned holds, then and ever after, the DiscInfo
\* that parseDiscInfo gives for its own record sequence, and no object of
\* the one result is an object of the other.
C28_InterleavingIndependent ==
    pc = "interleaved" =>
        /\ \A i \in {1, 2} :
               invocations[i].pc = "done" =>
                   Deref(invocations[i].ref) = parseDiscInfo(invocations[i].items)
        /\ (invocations[1].pc = "done" /\ invocations[2].pc = "done") =>
               Reach(invocations[1].ref) \cap Reach(invocations[2].ref) = {}

\* C28 witness: the first invocation began, the second began and created its
\* title, then the first created its own; both returned what they return
\* alone, with values "A" and "B" under the same keys.
C28_Witness ==
    /\ pc = "interleaved"
    /\ invocations[1].pc = "done" /\ invocations[2].pc = "done"
    /\ invocations[1].items = <<Info(CINFO, 1, 0, <<"A">>), Info(TINFO, 0, 2, <<"A">>)>>
    /\ invocations[2].items = <<Info(TINFO, 0, 2, <<"B">>), Info(CINFO, 1, 0, <<"B">>)>>
    /\ invocations[1].attributes = 1
    /\ invocations[2].attributes = 2
    /\ invocations[2].titlesMap[1] < invocations[1].titlesMap[1]
    /\ Deref(invocations[1].ref) =
           [attributes |-> (Num(1) :> <<"A">>),
            titles |-> <<[id |-> Num(0), attributes |-> (Num(2) :> <<"A">>),
                          streams |-> <<>>]>>]
    /\ Deref(invocations[2].ref) =
           [attributes |-> (Num(1) :> <<"B">>),
            titles |-> <<[id |-> Num(0), attributes |-> (Num(2) :> <<"B">>),
                          streams |-> <<>>]>>]

====
